---- MODULE Spec2Model ----
(***************************************************************************)
(* Model of the extraction + aggregation pipeline of logseq-claude-indexer.*)
(*                                                                         *)
(* Text is modelled as a sequence of one-character strings, so that the    *)
(* substring tests, splits, trims and regular expressions of the parsers   *)
(* are computed the way the Go code computes them.  A timestamp such as    *)
(* "2025-04-06 Sun 10:00:00" is one atomic character of a line ("t10"):    *)
(* time.Parse (Go's library) maps it to an instant, in seconds, or fails.  *)
(* Durations are counted in seconds.                                       *)
(***************************************************************************)
EXTENDS Integers, Sequences, FiniteSets, TLC

VARIABLES
    pc,         \* position of the operation under way
    clockIn,    \* parseClockLine: the line given
    clockOut,   \* parseClockLine: (entry, ok) returned
    lines,      \* ParseTasks: the lines of the note
    i,          \* ParseTasks: the line cursor (0-based)
    tasks,      \* the TaskRecords extracted (ParseTasks), given to the builders
    files,      \* the NoteFiles given to the builders
    refs,       \* BuildReferenceGraph: the LinkRecords processed so far
    Nodes,      \* ReferenceGraph.Nodes
    HubPages,   \* ReferenceGraph.HubPages
    MissingPages, \* MissingPagesIndex.MissingPages
    Threshold,  \* MissingPagesIndex.Threshold
    dayMap,     \* BuildTimelineIndex: dayMap
    Entries,    \* TimelineIndex.Entries
    timeIndex,  \* BuildTimeTrackingIndex: the index under construction
    projectTaskCounts, \* BuildTimeTrackingIndex: tracked tasks per project
    weekTaskCounts,    \* BuildTimeTrackingIndex: log entries per week
    tasksWithTracking, \* BuildTimeTrackingIndex: tasks with logged time
    taskIndex,  \* BuildTaskIndex: the index under construction
    scanned,    \* BuildTaskIndex: how many tasks the loop has been through
    now,        \* BuildTaskIndex: time.Now()
    weekIn,     \* getWeekStart: the time given
    weekOut,    \* getWeekStart: the week start returned, and its ByWeek key
    classifyIn, \* classifyPageType: the name given
    classifyOut, \* classifyPageType: the label returned
    disk,       \* runGenerate: what os.ReadFile gives for each NoteFile
    fileAt,     \* runGenerate: how many NoteFiles the loop has been through
    parseErrors, \* runGenerate: parseErrors
    dryRun,     \* runGenerate: the --dry-run flag
    reports     \* runGenerate: the reports written so far

clockVars == <<clockIn, clockOut>>
parseVars == <<lines, i>>
graphVars == <<refs, Nodes, HubPages, MissingPages, Threshold>>
timelineVars == <<dayMap, Entries>>

\* what each operation leaves alone
timeVars == <<timeIndex, projectTaskCounts, weekTaskCounts, tasksWithTracking>>
taskIndexVars == <<taskIndex, scanned, now>>
weekVars == <<weekIn, weekOut>>
classifyVars == <<classifyIn, classifyOut>>
runVars == <<disk, fileAt, parseErrors, dryRun, reports>>
restVars == <<weekVars, classifyVars, runVars>>
clockOthers ==
    <<parseVars, tasks, files, graphVars, timelineVars, timeVars, taskIndexVars, restVars>>
parseOthers ==
    <<clockVars, files, graphVars, timelineVars, timeVars, taskIndexVars, restVars>>
graphOthers ==
    <<clockVars, parseVars, tasks, timelineVars, timeVars, taskIndexVars, restVars>>
timelineOthers ==
    <<clockVars, parseVars, graphVars, timeVars, taskIndexVars, restVars>>
timeOthers ==
    <<clockVars, parseVars, files, graphVars, timelineVars, taskIndexVars, restVars>>
taskIndexOthers ==
    <<clockVars, parseVars, files, graphVars, timelineVars, timeVars, restVars>>
weekOthers ==
    <<clockVars, parseVars, tasks, files, graphVars, timelineVars, timeVars,
      taskIndexVars, classifyVars, runVars>>
classifyOthers ==
    <<clockVars, parseVars, tasks, files, graphVars, timelineVars, timeVars,
      taskIndexVars, weekVars, runVars>>
refsOthers ==
    <<clockVars, i, tasks, Nodes, HubPages, MissingPages, Threshold,
      timelineVars, timeVars, taskIndexVars, restVars>>
runOthers == <<clockVars, parseVars, timeVars, scanned, weekVars, classifyVars>>
vars == <<pc, clockIn, clockOut, lines, i, tasks,
          files, refs, Nodes, HubPages, MissingPages, Threshold, dayMap, Entries,
          timeIndex, projectTaskCounts, weekTaskCounts, tasksWithTracking,
          taskIndex, scanned, now, weekIn, weekOut, classifyIn, classifyOut,
          disk, fileAt, parseErrors, dryRun, reports>>

(***************************************************************************)
(* Bounds of the model                                                     *)
(***************************************************************************)
MaxDurLen == 6      \* longest duration text tried on a clock line
MaxLines == 4       \* most lines of a note
MaxFrags == 4       \* most fragments of a single line
MaxRefs == 3        \* most LinkRecords given to BuildReferenceGraph
WeekSpan == 10      \* days before and after an anchor day given to getWeekStart
MaxTasks == 3       \* most TaskRecords given to a builder

(***************************************************************************)
(* strings package, on sequences of characters                             *)
(***************************************************************************)
IsSpace(c) == c \in {" ", "\t", "\r"}

RECURSIVE TrimLeft(_)
TrimLeft(s) ==
    IF s = <<>> THEN s
    ELSE IF IsSpace(Head(s)) THEN TrimLeft(Tail(s)) ELSE s

RECURSIVE TrimRight(_)
TrimRight(s) ==
    IF s = <<>> THEN s
    ELSE IF IsSpace(s[Len(s)]) THEN TrimRight(SubSeq(s, 1, Len(s) - 1)) ELSE s

TrimSpace(s) == TrimRight(TrimLeft(s))

HasPrefix(s, p) == Len(s) >= Len(p) /\ SubSeq(s, 1, Len(p)) = p

\* sub stands in s at the 1-based position k
MatchAt(s, sub, k) ==
    k >= 1 /\ k + Len(sub) - 1 <= Len(s) /\ SubSeq(s, k, k + Len(sub) - 1) = sub

\* strings.Index: 0-based position of the first occurrence, -1 when absent
Index(s, sub) ==
    LET hits == {k \in 1..(Len(s) - Len(sub) + 1) : MatchAt(s, sub, k)}
    IN  IF hits = {} THEN -1
        ELSE (CHOOSE k \in hits : \A j \in hits : k <= j) - 1

Contains(s, sub) == Index(s, sub) # -1

\* s[from:] of Go, from 0-based
SliceFrom(s, from) == SubSeq(s, from + 1, Len(s))

\* strings.Replace(s, old, new, 1)
Replace1(s, old, new) ==
    LET idx == Index(s, old)
    IN  IF idx = -1 THEN s
        ELSE SubSeq(s, 1, idx) \o new \o SliceFrom(s, idx + Len(old))

\* strings.Split(s, sep) for a non-empty sep
RECURSIVE Split(_, _)
Split(s, sep) ==
    LET idx == Index(s, sep)
    IN  IF idx = -1 THEN <<s>>
        ELSE <<SubSeq(s, 1, idx)>> \o Split(SliceFrom(s, idx + Len(sep)), sep)

\* strings.Fields: the words between runs of white space
RECURSIVE Fields(_)
Fields(s) ==
    LET t == TrimLeft(s)
        ends == {k \in 1..Len(t) : IsSpace(t[k])}
        stop == IF ends = {} THEN Len(t) + 1
                ELSE CHOOSE k \in ends : \A m \in ends : k <= m
    IN  IF t = <<>> THEN <<>>
        ELSE <<SubSeq(t, 1, stop - 1)>> \o Fields(SubSeq(t, stop, Len(t)))

\* the orders in which a map with the keys S may be iterated
RECURSIVE AllOrders(_)
AllOrders(S) ==
    IF S = {} THEN {<<>>}
    ELSE UNION {{<<x>> \o rest : rest \in AllOrders(S \ {x})} : x \in S}

\* sort.Slice with less(a, b) = a.key > b.key, on a slice of at most 12
\* elements: an insertion sort
RECURSIVE InsertDesc(_, _)
InsertDesc(sorted, x) ==
    IF sorted = <<>> THEN <<x>>
    ELSE IF x.key > sorted[Len(sorted)].key
         THEN Append(InsertDesc(SubSeq(sorted, 1, Len(sorted) - 1), x), sorted[Len(sorted)])
         ELSE Append(sorted, x)

RECURSIVE SortDescFrom(_, _)
SortDescFrom(done, rest) ==
    IF rest = <<>> THEN done ELSE SortDescFrom(InsertDesc(done, Head(rest)), Tail(rest))

SortDesc(s) == SortDescFrom(<<>>, s)

\* the sequences over S of length at most n
RECURSIVE SeqsUpTo(_, _)
SeqsUpTo(S, n) ==
    IF n = 0 THEN {<<>>}
    ELSE LET shorter == SeqsUpTo(S, n - 1)
         IN  shorter \cup {Append(s, x) : s \in {t \in shorter : Len(t) = n - 1}, x \in S}

(***************************************************************************)
(* internal/parser/logbook.go: the clock line of a log block               *)
(***************************************************************************)
\* time.Parse(logseqTimeFormat, .): the instants of the timestamps of the model
TimeOf == ("t10" :> 36000) @@ ("t12" :> 43200) @@ ("t33" :> 118800)

TimeParse(str) ==
    IF Len(str) = 1 /\ str[1] \in DOMAIN TimeOf
    THEN [err |-> FALSE, t |-> TimeOf[str[1]]]
    ELSE [err |-> TRUE, t |-> 0]

DigitVal ==
    ("0" :> 0) @@ ("1" :> 1) @@ ("2" :> 2) @@ ("3" :> 3) @@ ("4" :> 4) @@
    ("5" :> 5) @@ ("6" :> 6) @@ ("7" :> 7) @@ ("8" :> 8) @@ ("9" :> 9)

RECURSIVE SimpleIntLoop(_, _)
SimpleIntLoop(s, result) ==
    IF s = <<>> THEN [n |-> result, err |-> FALSE]
    ELSE IF Head(s) \notin DOMAIN DigitVal THEN [n |-> 0, err |-> FALSE]
    ELSE SimpleIntLoop(Tail(s), result * 10 + DigitVal[Head(s)])

parseSimpleInt(s0) ==
    LET s == TrimSpace(s0)
    IN  IF s = <<>> THEN [n |-> 0, err |-> FALSE] ELSE SimpleIntLoop(s, 0)

parseIntString(s) == parseSimpleInt(TrimSpace(s))

\* parseIntegers(parts[0], &hours, parts[1], &minutes, parts[2], &seconds)
parseIntegers(parts) ==
    LET h  == parseIntString(parts[1])
        m  == parseIntString(parts[2])
        sc == parseIntString(parts[3])
    IN  IF h.err \/ m.err \/ sc.err
        THEN [err |-> TRUE, hours |-> 0, minutes |-> 0, seconds |-> 0]
        ELSE [err |-> FALSE, hours |-> h.n, minutes |-> m.n, seconds |-> sc.n]

parseLogseqDuration(s0) ==
    LET parts == Split(TrimSpace(s0), <<":">>)
    IN  IF Len(parts) # 3 THEN [d |-> 0, err |-> FALSE]
        ELSE LET r == parseIntegers(parts)
             IN  IF r.err THEN [d |-> 0, err |-> TRUE]
                 ELSE [d |-> r.hours * 3600 + r.minutes * 60 + r.seconds,
                       err |-> FALSE]

\* \s of the regular expression
IsReSpace(c) == c \in {" ", "\t", "\r", "\f"}

RECURSIVE SkipSpace(_, _)
SkipSpace(s, k) ==
    IF k <= Len(s) /\ IsReSpace(s[k]) THEN SkipSpace(s, k + 1) ELSE k

\* first position >= k holding "]", Len(s)+1 when there is none
RECURSIVE NextClose(_, _)
NextClose(s, k) ==
    IF k <= Len(s) /\ s[k] # "]" THEN NextClose(s, k + 1) ELSE k

NoMatch == [ok |-> FALSE, start |-> <<>>, end |-> <<>>, dur |-> <<>>]

\* clockLineRegex tried with "CLOCK:" at position p:
\*   CLOCK:\s*\[([^\]]+)\]--\[([^\]]+)\]\s*=>\s*(.+)
ClockMatchAt(s, p) ==
    IF ~MatchAt(s, <<"C", "L", "O", "C", "K", ":">>, p) THEN NoMatch
    ELSE
    LET b == SkipSpace(s, p + 6)          \* "["
        c == NextClose(s, b + 1)          \* "]" closing the start timestamp
        d == c + 4                        \* first character of the end timestamp
        e == NextClose(s, d)              \* "]" closing the end timestamp
        f == SkipSpace(s, e + 1)          \* "=>"
        g == SkipSpace(s, f + 2)          \* first character of the duration
    IN  IF ~MatchAt(s, <<"[">>, b) \/ c = b + 1 \/ c > Len(s) THEN NoMatch
        ELSE IF ~MatchAt(s, <<"]", "-", "-", "[">>, c) THEN NoMatch
        ELSE IF e = d \/ e > Len(s) THEN NoMatch
        ELSE IF ~MatchAt(s, <<"=", ">">>, f) THEN NoMatch
        ELSE IF g <= Len(s)
             THEN [ok |-> TRUE, start |-> SubSeq(s, b + 1, c - 1),
                   end |-> SubSeq(s, d, e - 1), dur |-> SubSeq(s, g, Len(s))]
        \* (.+) needs one character: \s* gives its last one back
        ELSE IF g > f + 2
             THEN [ok |-> TRUE, start |-> SubSeq(s, b + 1, c - 1),
                   end |-> SubSeq(s, d, e - 1), dur |-> SubSeq(s, Len(s), Len(s))]
        ELSE NoMatch

\* clockLineRegex.FindStringSubmatch: the leftmost match
clockLineRegex(s) ==
    LET hits == {p \in 1..Len(s) : ClockMatchAt(s, p).ok}
    IN  IF hits = {} THEN NoMatch
        ELSE ClockMatchAt(s, CHOOSE p \in hits : \A q \in hits : p <= q)

NoEntry == [ok |-> FALSE, Start |-> 0, End |-> 0, Duration |-> 0]

\* parseClockLine without the check of the end timestamp
parseClockLine_EndUnchecked(line) ==
    LET matches == clockLineRegex(line)
        start   == TimeParse(matches.start)
        end     == TimeParse(matches.end)
        dur     == parseLogseqDuration(matches.dur)
    IN  IF ~matches.ok THEN NoEntry
        ELSE IF start.err THEN NoEntry
        ELSE [ok |-> TRUE, Start |-> start.t, End |-> end.t,
              Duration |-> IF dur.err THEN end.t - start.t ELSE dur.d]

parseClockLine(line) ==
    LET matches == clockLineRegex(line)
        start   == TimeParse(matches.start)
        end     == TimeParse(matches.end)
        dur     == parseLogseqDuration(matches.dur)
    IN  IF ~matches.ok THEN NoEntry
        ELSE IF start.err THEN NoEntry
        ELSE IF end.err THEN NoEntry
        ELSE [ok |-> TRUE, Start |-> start.t, End |-> end.t,
              Duration |-> IF dur.err THEN end.t - start.t ELSE dur.d]

(***************************************************************************)
(* internal/parser/logbook.go: ParseLogbook, ExtractPageReferences         *)
(***************************************************************************)
LogbookOpen == <<":", "L", "O", "G", "B", "O", "O", "K", ":">>
LogbookClose == <<":", "E", "N", "D", ":">>

EntryOf(e) == [Start |-> e.Start, End |-> e.End, Duration |-> e.Duration]

\* the loop of ParseLogbook from the 0-based line k on
RECURSIVE LogbookLoop(_, _, _, _)
LogbookLoop(ls, k, entries, linesConsumed) ==
    IF k >= Len(ls) THEN [entries |-> entries, consumed |-> linesConsumed]
    ELSE LET line == TrimSpace(ls[k + 1])
             e    == parseClockLine(line)
         IN  IF Contains(line, LogbookClose)
             THEN [entries |-> entries, consumed |-> linesConsumed + 1]
             ELSE LogbookLoop(ls, k + 1,
                              IF e.ok THEN Append(entries, EntryOf(e)) ELSE entries,
                              linesConsumed + 1)

\* ParseLogbook counting the open marker only when no close marker follows
ParseLogbook_UnclosedNotConsumed(ls, startIdx) ==
    IF startIdx >= Len(ls) \/ ~Contains(ls[startIdx + 1], LogbookOpen)
    THEN [entries |-> <<>>, consumed |-> 0]
    ELSE LET block == LogbookLoop(ls, startIdx + 1, <<>>, 1)
         IN  IF \E k \in (startIdx + 2)..Len(ls) : Contains(ls[k], LogbookClose)
             THEN block
             ELSE [block EXCEPT !.consumed = 1]

\* ParseLogbook with the last line of the block left out of the count
ParseLogbook_LastLineUncounted(ls, startIdx) ==
    IF startIdx >= Len(ls) \/ ~Contains(ls[startIdx + 1], LogbookOpen)
    THEN [entries |-> <<>>, consumed |-> 0]
    ELSE LET block == LogbookLoop(ls, startIdx + 1, <<>>, 1)
         IN  [block EXCEPT !.consumed = IF @ > 1 THEN @ - 1 ELSE @]

ParseLogbook(ls, startIdx) ==
    IF startIdx >= Len(ls) \/ ~Contains(ls[startIdx + 1], LogbookOpen)
    THEN [entries |-> <<>>, consumed |-> 0]
    ELSE LogbookLoop(ls, startIdx + 1, <<>>, 1)

\* pageRefRegex tried at position k:  \[\[([^\]]+)\]\]
\* the position after the match, 0 when there is none
PageRefEndAt(s, k) ==
    LET c == NextClose(s, k + 2)
    IN  IF MatchAt(s, <<"[", "[">>, k) /\ c > k + 2 /\ MatchAt(s, <<"]", "]">>, c)
        THEN c + 2 ELSE 0

\* pageRefRegex.FindAllStringSubmatch(line, -1): leftmost, not overlapping
RECURSIVE PageRefsFrom(_, _)
PageRefsFrom(s, k) ==
    IF k > Len(s) THEN <<>>
    ELSE LET e == PageRefEndAt(s, k)
         IN  IF e = 0 THEN PageRefsFrom(s, k + 1)
             ELSE <<SubSeq(s, k + 2, e - 3)>> \o PageRefsFrom(s, e)

ExtractPageReferences(line) == PageRefsFrom(line, 1)

(***************************************************************************)
(* internal/parser/tasks.go                                                *)
(***************************************************************************)
taskStatuses == <<"NOW", "LATER", "TODO", "DOING", "DONE">>

\* string(status)
StatusText ==
    [st \in {"NOW", "LATER", "TODO", "DOING", "DONE"} |->
        CASE st = "NOW"   -> <<"N", "O", "W">>
          [] st = "LATER" -> <<"L", "A", "T", "E", "R">>
          [] st = "TODO"  -> <<"T", "O", "D", "O">>
          [] st = "DOING" -> <<"D", "O", "I", "N", "G">>
          [] st = "DONE"  -> <<"D", "O", "N", "E">>]

PriorityNone == ""

\* mutant: the "+ " bullet is forgotten
isTaskLine_NoPlus(line) ==
    LET trimmed == TrimSpace(line)
    IN  \/ HasPrefix(trimmed, <<"-", " ">>)
        \/ HasPrefix(trimmed, <<"*", " ">>)

isTaskLine(line) ==
    LET trimmed == TrimSpace(line)
    IN  \/ HasPrefix(trimmed, <<"-", " ">>)
        \/ HasPrefix(trimmed, <<"*", " ">>)
        \/ HasPrefix(trimmed, <<"+", " ">>)

\* the loop of extractTaskStatus from the k-th status on
RECURSIVE StatusFrom(_, _)
StatusFrom(line, k) ==
    IF k > Len(taskStatuses) THEN [status |-> "", found |-> FALSE]
    ELSE IF Contains(line, StatusText[taskStatuses[k]] \o <<" ">>)
         THEN [status |-> taskStatuses[k], found |-> TRUE]
         ELSE StatusFrom(line, k + 1)

\* mutant: the loop starts at the second status
extractTaskStatus_SkipFirst(line) == StatusFrom(line, 2)

extractTaskStatus(line) == StatusFrom(line, 1)

\* regexp \[#([ABC])\], leftmost match
extractPriority(line) ==
    LET hits == {k \in 1..Len(line) :
                    /\ MatchAt(line, <<"[", "#">>, k)
                    /\ k + 3 <= Len(line)
                    /\ line[k + 2] \in {"A", "B", "C"}
                    /\ line[k + 3] = "]"}
    IN  IF hits = {} THEN PriorityNone
        ELSE line[(CHOOSE k \in hits : \A j \in hits : k <= j) + 2]

extractTaskDescription(line, status, priority) ==
    LET marker == StatusText[status] \o <<" ">>
        idx    == Index(line, marker)
        description == SliceFrom(line, idx + Len(marker))
        priorityMarker == <<"[", "#", priority, "]", " ">>
    IN  IF idx = -1 THEN TrimSpace(line)
        ELSE IF priority # PriorityNone
             THEN TrimSpace(Replace1(description, priorityMarker, <<>>))
             ELSE TrimSpace(description)

\* filePath given to ParseTasks
FilePath == <<"j", "/", "n", ".", "m", "d">>

\* models.Task built from the 0-based line k, and the lines its log block takes
TaskAt(ls, k) ==
    LET line     == ls[k + 1]
        status   == extractTaskStatus(line).status
        priority == extractPriority(line)
        lb       == IF k + 1 < Len(ls) /\ Contains(ls[k + 2], LogbookOpen)
                    THEN ParseLogbook(ls, k + 1)
                    ELSE [entries |-> <<>>, consumed |-> 0]
    IN  [task |-> [Status      |-> status,
                   Priority    |-> priority,
                   Description |-> extractTaskDescription(line, status, priority),
                   PageRefs    |-> ExtractPageReferences(line),
                   SourceFile  |-> FilePath,
                   LineNumber  |-> k + 1,
                   Logbook     |-> lb.entries],
         consumed |-> lb.consumed]

\* one iteration of the loop of ParseTasks
ParseTasksStep ==
    /\ pc = "parse"
    /\ i < Len(lines)
    /\ IF ~isTaskLine(lines[i + 1]) \/ ~extractTaskStatus(lines[i + 1]).found
       THEN /\ tasks' = tasks
            /\ i' = i + 1
       ELSE /\ tasks' = Append(tasks, TaskAt(lines, i).task)
            /\ i' = i + TaskAt(lines, i).consumed + 1
    /\ UNCHANGED <<pc, lines, parseOthers>>

ParseTasksReturn ==
    /\ pc = "parse"
    /\ i >= Len(lines)
    /\ pc' = "parsed"
    /\ UNCHANGED <<parseVars, tasks, parseOthers>>

ParseNext == ParseTasksStep \/ ParseTasksReturn

(***************************************************************************)
(* SpecLine: ParseTasks on a note of one line, built from fragments        *)
(***************************************************************************)
Frags ==
    { <<"-", " ">>, <<"N", "O", "W", " ">>, <<"T", "O", "D", "O", " ">>,
      <<"D", "O", "N", "E">>, <<"[", "#", "A", "]">>, <<"[", "#", "B", "]", " ">>,
      <<"[", "#", "D", "]", " ">>, <<"x">>, <<" ">> }

RECURSIVE Concat(_)
Concat(ss) == IF ss = <<>> THEN <<>> ELSE Head(ss) \o Concat(Tail(ss))

FragLines == {Concat(fs) : fs \in SeqsUpTo(Frags, MaxFrags)}

\* the variables of the operations that a specification does not run
ClockIdle == clockIn = <<>> /\ clockOut = NoEntry
ParseIdle == lines = <<>> /\ i = 0
GraphIdle ==
    /\ refs = <<>> /\ Nodes = <<>> /\ HubPages = <<>>
    /\ MissingPages = <<>> /\ Threshold = 0
TimelineIdle == dayMap = <<>> /\ Entries = <<>>
TimeIdle ==
    /\ timeIndex = <<>> /\ projectTaskCounts = <<>> /\ weekTaskCounts = <<>>
    /\ tasksWithTracking = 0
TaskIndexIdle == taskIndex = <<>> /\ scanned = 0 /\ now = 0

WeekIdle == weekIn = 0 /\ weekOut = <<>>
ClassifyIdle == classifyIn = <<>> /\ classifyOut = <<>>
RunIdle ==
    /\ disk = <<>> /\ fileAt = 0 /\ parseErrors = 0 /\ dryRun = FALSE
    /\ reports = <<>>
RestIdle == WeekIdle /\ ClassifyIdle /\ RunIdle

clockOthersIdle ==
    /\ ParseIdle /\ tasks = <<>> /\ files = <<>> /\ GraphIdle /\ TimelineIdle
    /\ TimeIdle /\ TaskIndexIdle /\ RestIdle
parseOthersIdle ==
    /\ ClockIdle /\ files = <<>> /\ GraphIdle /\ TimelineIdle /\ TimeIdle
    /\ TaskIndexIdle /\ RestIdle
graphOthersIdle ==
    /\ ClockIdle /\ ParseIdle /\ tasks = <<>> /\ TimelineIdle /\ TimeIdle
    /\ TaskIndexIdle /\ RestIdle
timelineOthersIdle ==
    ClockIdle /\ ParseIdle /\ GraphIdle /\ TimeIdle /\ TaskIndexIdle /\ RestIdle
timeOthersIdle ==
    /\ ClockIdle /\ ParseIdle /\ files = <<>> /\ GraphIdle /\ TimelineIdle
    /\ TaskIndexIdle /\ RestIdle
taskIndexOthersIdle ==
    /\ ClockIdle /\ ParseIdle /\ files = <<>> /\ GraphIdle /\ TimelineIdle
    /\ TimeIdle /\ RestIdle
weekOthersIdle ==
    /\ ClockIdle /\ ParseIdle /\ tasks = <<>> /\ files = <<>> /\ GraphIdle
    /\ TimelineIdle /\ TimeIdle /\ TaskIndexIdle /\ ClassifyIdle /\ RunIdle
classifyOthersIdle ==
    /\ ClockIdle /\ ParseIdle /\ tasks = <<>> /\ files = <<>> /\ GraphIdle
    /\ TimelineIdle /\ TimeIdle /\ TaskIndexIdle /\ WeekIdle /\ RunIdle
refsOthersIdle ==
    /\ ClockIdle /\ i = 0 /\ tasks = <<>> /\ Nodes = <<>> /\ HubPages = <<>>
    /\ MissingPages = <<>> /\ Threshold = 0 /\ TimelineIdle /\ TimeIdle
    /\ TaskIndexIdle /\ RestIdle
runOthersIdle ==
    ClockIdle /\ ParseIdle /\ TimeIdle /\ scanned = 0 /\ WeekIdle /\ ClassifyIdle

LineInit ==
    /\ pc = "parse"
    /\ lines \in {<<l>> : l \in FragLines}
    /\ i = 0
    /\ tasks = <<>>
    /\ parseOthersIdle

SpecLine == LineInit /\ [][ParseNext]_vars

(***************************************************************************)
(* SpecClock: parseClockLine applied to one line                           *)
(***************************************************************************)
DurAlphabet == {"2", "6", ":", "h"}

DurTexts == SeqsUpTo(DurAlphabet, MaxDurLen) \ {<<>>}

ClockLineOf(a, b, d) ==
    <<" ", "C", "L", "O", "C", "K", ":", " ", "[", a, "]", "-", "-", "[", b, "]",
      " ", "=", ">", " ", " ">> \o d

ClockLines ==
    {ClockLineOf(a, b, d) : a \in {"t10", "bad"}, b \in {"t12", "t33", "bad"},
                            d \in DurTexts}

ClockInit ==
    /\ pc = "clock"
    /\ clockIn \in ClockLines
    /\ clockOut = NoEntry
    /\ clockOthersIdle

ParseClockLine ==
    /\ pc = "clock"
    /\ clockOut' = parseClockLine(clockIn)
    /\ pc' = "clockDone"
    /\ UNCHANGED <<clockIn, clockOthers>>

ClockNext == ParseClockLine

SpecClock == ClockInit /\ [][ClockNext]_vars

\* the parts a line of ClockLines was built from
ClockStartOf(line) == <<line[10]>>
ClockEndOf(line) == <<line[15]>>
ClockDurOf(line) == SubSeq(line, 22, Len(line))

AllDigits(s) == s # <<>> /\ \A k \in 1..Len(s) : s[k] \in DOMAIN DigitVal

RECURSIVE DecimalValue(_)
DecimalValue(s) ==
    IF s = <<>> THEN 0
    ELSE DecimalValue(SubSeq(s, 1, Len(s) - 1)) * 10 + DigitVal[s[Len(s)]]

\* the text reads as HH:MM:SS: three numbers separated by colons
IsHMS(text) ==
    LET parts == Split(TrimSpace(text), <<":">>)
    IN  Len(parts) = 3 /\ \A k \in 1..3 : AllDigits(TrimSpace(parts[k]))

HMSValue(text) ==
    LET parts == Split(TrimSpace(text), <<":">>)
    IN  DecimalValue(TrimSpace(parts[1])) * 3600
        + DecimalValue(TrimSpace(parts[2])) * 60
        + DecimalValue(TrimSpace(parts[3]))

ClockTimestampsParse ==
    /\ ~TimeParse(ClockStartOf(clockIn)).err
    /\ ~TimeParse(ClockEndOf(clockIn)).err

\* C2: for a clock line that matches the pattern and whose two timestamps
\* parse, the entry's duration is the value the duration text encodes when
\* the text reads as HH:MM:SS, and end minus start when it does not.
C2_DurationEncodedElseEndMinusStart ==
    (pc = "clockDone" /\ ClockTimestampsParse) =>
        /\ clockOut.ok
        /\ IsHMS(ClockDurOf(clockIn)) =>
               clockOut.Duration = HMSValue(ClockDurOf(clockIn))
        /\ ~IsHMS(ClockDurOf(clockIn)) =>
               clockOut.Duration = clockOut.End - clockOut.Start

\* the half of C2 about a duration text that reads as HH:MM:SS
ClockEncodedDurationKept ==
    (pc = "clockDone" /\ ClockTimestampsParse /\ IsHMS(ClockDurOf(clockIn))) =>
        clockOut.ok /\ clockOut.Duration = HMSValue(ClockDurOf(clockIn))

\* what the code does with a duration text that does not read as HH:MM:SS:
\* the fallback to end minus start is never taken
ClockFallbackNeverTaken ==
    (pc = "clockDone" /\ clockOut.ok) =>
        clockOut.Duration = parseLogseqDuration(ClockDurOf(clockIn)).d

ClockLongHoursSeen ==
    pc = "clockDone" /\ clockOut.ok /\ clockOut.Duration > 24 * 3600

(***************************************************************************)
(* Properties of ParseTasks, line by line                                  *)
(***************************************************************************)
Statuses == {"NOW", "LATER", "TODO", "DOING", "DONE"}

\* the line begins, after leading white space, with a bullet marker
IsBulletLine(line) ==
    \E b \in {"-", "*", "+"} : HasPrefix(TrimLeft(line), <<b, " ">>)

\* the line holds the status token followed by a space
CarriesToken(line, st) ==
    \E k \in 1..Len(line) : MatchAt(line, StatusText[st] \o <<" ">>, k)

CarriesAnyToken(line) == \E st \in Statuses : CarriesToken(line, st)

\* place of a status in the fixed order NOW, LATER, TODO, DOING, DONE
OrderOf(st) == CHOOSE k \in 1..Len(taskStatuses) : taskStatuses[k] = st

LineOfTask(t) == lines[t.LineNumber]

\* C8: a TaskRecord comes only from a bullet line that contains a status
\* token followed by a space; its status is the first token, in the order
\* NOW, LATER, TODO, DOING, DONE, that the line contains; a line yields at
\* most one TaskRecord and every status is one of the five.
C8_StatusIsFirstTokenInFixedOrder ==
    pc = "parsed" =>
        /\ \A n \in 1..Len(tasks) :
              LET t == tasks[n] IN
              /\ t.LineNumber \in 1..Len(lines)
              /\ IsBulletLine(LineOfTask(t))
              /\ t.Status \in Statuses
              /\ CarriesToken(LineOfTask(t), t.Status)
              /\ \A st \in Statuses :
                    CarriesToken(LineOfTask(t), st) => OrderOf(t.Status) <= OrderOf(st)
        /\ \A n, m \in 1..Len(tasks) :
              tasks[n].LineNumber = tasks[m].LineNumber => n = m

\* a record whose line holds TODO before NOW and yet has status NOW
C8_Witness ==
    /\ pc = "parsed"
    /\ \E n \in 1..Len(tasks) :
          /\ tasks[n].Status = "NOW"
          /\ CarriesToken(LineOfTask(tasks[n]), "TODO")
          /\ Index(LineOfTask(tasks[n]), StatusText["TODO"])
               < Index(LineOfTask(tasks[n]), StatusText["NOW"])

\* the text after the first occurrence of the status token and its space
AfterStatus(line, st) ==
    SliceFrom(line, Index(line, StatusText[st] \o <<" ">>) + Len(StatusText[st]) + 1)

MarkerOf(p) == <<"[", "#", p, "]">>

HasValidMarker(line) ==
    \E p \in {"A", "B", "C"} : Contains(line, MarkerOf(p))

\* text with one occurrence of the marker mk (and, or not, the space that
\* follows it) taken out, then trimmed
RemovedOnce(text, mk) ==
    {TrimSpace(SubSeq(text, 1, k - 1) \o SubSeq(text, k + Len(mk) + sp, Len(text))) :
        k \in {j \in 1..Len(text) : MatchAt(text, mk, j)},
        sp \in {0, 1}}

\* C9: the description is the text after the status token with the matched
\* priority marker removed exactly once, trimmed; a line with no valid
\* marker keeps that text, trimmed, and has priority none.
C9_DescriptionStripsMarkerOnce ==
    pc = "parsed" =>
        \A n \in 1..Len(tasks) :
            LET t    == tasks[n]
                rest == AfterStatus(LineOfTask(t), t.Status)
            IN  IF ~HasValidMarker(LineOfTask(t))
                THEN t.Priority = PriorityNone /\ t.Description = TrimSpace(rest)
                ELSE /\ t.Priority \in {"A", "B", "C"}
                     /\ IF Contains(rest, MarkerOf(t.Priority))
                        THEN t.Description \in RemovedOnce(rest, MarkerOf(t.Priority))
                        ELSE t.Description = TrimSpace(rest)

\* what the code does: the marker goes only where a space follows it
DescriptionStripsMarkerWithSpace ==
    pc = "parsed" =>
        \A n \in 1..Len(tasks) :
            LET t    == tasks[n]
                rest == AfterStatus(LineOfTask(t), t.Status)
            IN  t.Description =
                    IF t.Priority = PriorityNone THEN TrimSpace(rest)
                    ELSE TrimSpace(Replace1(rest, MarkerOf(t.Priority) \o <<" ">>, <<>>))

(***************************************************************************)
(* SpecParse: ParseTasks on a note of several lines                        *)
(***************************************************************************)
ClockSample(a, d) ==
    <<" ", " ", "C", "L", "O", "C", "K", ":", " ", "[", a, "]", "-", "-", "[",
      "t12", "]", " ", "=", ">", " ", " ">> \o d

SampleLines ==
    { <<"#", " ", "x">>,                                          \* # x
      <<"-", " ", "N", "O", "W", " ", "x">>,                      \* - NOW x
      <<"+", " ", "D", "O", "N", "E", " ", "[", "#", "A", "]", " ", "y">>,
                                                                  \* + DONE [#A] y
      <<"-", " ", "W", "A", "I", "T", " ", "x">>,                 \* - WAIT x
      <<"T", "O", "D", "O", " ", "x">>,                           \* TODO x
      <<" ", " ">> \o LogbookOpen,                                \*   :LOGBOOK:
      <<" ", " ">> \o LogbookClose,                               \*   :END:
      ClockSample("t10", <<"0", "2", ":", "0", "0", ":", "0", "0">>),
      ClockSample("bad", <<"0", "1", ":", "0", "0", ":", "0", "0">>) }

ParseInit ==
    /\ pc = "parse"
    /\ lines \in SeqsUpTo(SampleLines, MaxLines)
    /\ i = 0
    /\ tasks = <<>>
    /\ parseOthersIdle

SpecParse == ParseInit /\ [][ParseNext]_vars

RecordsOfLine(j) == {n \in 1..Len(tasks) : tasks[n].LineNumber = j}

\* C1 as stated: exactly one TaskRecord for every (bullet) line that carries
\* a recognized status token, wherever it stands in the note, and none for a
\* bullet line that carries none of the five.
C1_OneRecordPerTokenLine ==
    pc = "parsed" =>
        \A j \in 1..Len(lines) :
            /\ (IsBulletLine(lines[j]) /\ CarriesAnyToken(lines[j])) =>
                   Cardinality(RecordsOfLine(j)) = 1
            /\ (IsBulletLine(lines[j]) /\ ~CarriesAnyToken(lines[j])) =>
                   RecordsOfLine(j) = {}

\* last line of the log block opened at line o: the first later line that
\* holds the close marker, or the last line of the note
BlockEnd(o) ==
    LET closes == {k \in (o + 1)..Len(lines) : Contains(lines[k], LogbookClose)}
    IN  IF closes = {} THEN Len(lines)
        ELSE CHOOSE k \in closes : \A m \in closes : k <= m

\* line j belongs to the log block that follows the line of an emitted task
InLogBlock(j) ==
    \E n \in 1..Len(tasks) :
        LET o == tasks[n].LineNumber + 1
        IN  /\ o <= Len(lines)
            /\ Contains(lines[o], LogbookOpen)
            /\ o <= j /\ j <= BlockEnd(o)

\* C1 amended: exactly one TaskRecord for every bullet line that carries a
\* recognized status token and is not part of the log block following an
\* earlier task line; no TaskRecord for any other line.
C1_OneRecordPerTaskLineOutsideLogBlocks ==
    pc = "parsed" =>
        \A j \in 1..Len(lines) :
            Cardinality(RecordsOfLine(j)) =
                IF IsBulletLine(lines[j]) /\ CarriesAnyToken(lines[j]) /\ ~InLogBlock(j)
                THEN 1 ELSE 0

\* a note with a task line inside a log block, and a bullet line without token
C1_Witness ==
    /\ pc = "parsed"
    /\ Len(tasks) = 1
    /\ \E j \in 1..Len(lines) :
          IsBulletLine(lines[j]) /\ CarriesAnyToken(lines[j]) /\ InLogBlock(j)
    /\ \E j \in 1..Len(lines) :
          IsBulletLine(lines[j]) /\ ~CarriesAnyToken(lines[j])

\* the cursor i stands on a task line that the open marker follows, and the
\* block has a close marker
AtTaskWithClosedBlock ==
    /\ pc = "parse"
    /\ i < Len(lines)
    /\ isTaskLine(lines[i + 1]) /\ extractTaskStatus(lines[i + 1]).found
    /\ i + 1 < Len(lines)
    /\ Contains(lines[i + 2], LogbookOpen)
    /\ \E k \in (i + 3)..Len(lines) : Contains(lines[k], LogbookClose)

\* C20: when the line after a task line holds the open marker, the count
\* of ParseLogbook covers the lines from the open marker through the close
\* marker, and ParseTasks goes on at the line right after the close marker:
\* no line of the block is examined and none after it is skipped; at a
\* start index whose line has no open marker ParseLogbook returns no entry
\* and a count of 0.
C20_CursorResumesAfterCloseMarker ==
    [][/\ AtTaskWithClosedBlock =>
             /\ ParseLogbook(lines, i + 1).consumed = BlockEnd(i + 2) - (i + 2) + 1
             /\ i' = BlockEnd(i + 2)
             /\ Len(tasks') = Len(tasks) + 1
             /\ tasks'[Len(tasks')].LineNumber = i + 1
       /\ \A k \in 0..Len(lines) :
             (k >= Len(lines) \/ ~Contains(lines[k + 1], LogbookOpen))
                 => ParseLogbook(lines, k) = [entries |-> <<>>, consumed |-> 0]]_vars

\* a task, its block of open marker, clock line and close marker skipped
\* with one entry read, or a task line right after the close marker parsed
C20_Witness ==
    /\ pc = "parsed"
    /\ Len(lines) = 4
    /\ Contains(lines[2], LogbookOpen)
    /\ Contains(lines[3], LogbookClose)
    /\ Len(tasks) = 2
    /\ tasks[1].LineNumber = 1 /\ tasks[2].LineNumber = 4

(***************************************************************************)
(* internal/indexer/graph_indexer.go                                       *)
(***************************************************************************)
\* 1-based position of the last slash or backslash of the path, 0 if none
LastSlash(filePath) ==
    LET at == {k \in 1..Len(filePath) : filePath[k] \in {"/", "\\"}}
    IN  IF at = {} THEN 0 ELSE CHOOSE k \in at : \A m \in at : m <= k

extractPageNameFromPath(filePath) ==
    LET basename == SubSeq(filePath, LastSlash(filePath) + 1, Len(filePath))
        n == Len(basename)
    IN  IF n > 3 /\ SubSeq(basename, n - 2, n) = <<".", "m", "d">>
        THEN SubSeq(basename, 1, n - 3)
        ELSE basename

contains(slice, value) == \E k \in 1..Len(slice) : slice[k] = value

NewNode(pageName, filePath) ==
    [PageName |-> pageName, FilePath |-> filePath, OutboundRefs |-> <<>>,
     InboundRefs |-> <<>>, ReferenceCount |-> 0]

\* the first loop of BuildReferenceGraph: one node per file
RECURSIVE SeedNodes(_, _)
SeedNodes(fs, nodes) ==
    IF fs = <<>> THEN nodes
    ELSE LET pageName == extractPageNameFromPath(Head(fs).Path)
         IN  SeedNodes(Tail(fs),
                       (pageName :> NewNode(pageName, Head(fs).Path)) @@ nodes)

\* the three steps of the body of the second loop of BuildReferenceGraph
AddOutbound(nodes, ref) ==
    IF ref.SourcePage \in DOMAIN nodes
       /\ ~contains(nodes[ref.SourcePage].OutboundRefs, ref.TargetPage)
    THEN [nodes EXCEPT ![ref.SourcePage].OutboundRefs = Append(@, ref.TargetPage)]
    ELSE nodes

\* mutant: the target node is created even when it exists
EnsureTarget_Always(nodes, ref) ==
    (ref.TargetPage :> NewNode(ref.TargetPage, <<>>)) @@ nodes

EnsureTarget(nodes, ref) ==
    IF ref.TargetPage \notin DOMAIN nodes
    THEN (ref.TargetPage :> NewNode(ref.TargetPage, <<>>)) @@ nodes
    ELSE nodes

\* mutant: the inbound list is not checked for the source
AddInbound_NoDedup(nodes, ref) ==
    [nodes EXCEPT ![ref.TargetPage].InboundRefs = Append(@, ref.SourcePage),
                  ![ref.TargetPage].ReferenceCount = @ + 1]

AddInbound(nodes, ref) ==
    IF ~contains(nodes[ref.TargetPage].InboundRefs, ref.SourcePage)
    THEN [nodes EXCEPT ![ref.TargetPage].InboundRefs = Append(@, ref.SourcePage),
                       ![ref.TargetPage].ReferenceCount = @ + 1]
    ELSE nodes

AddRef(nodes, ref) == AddInbound(EnsureTarget(AddOutbound(nodes, ref), ref), ref)

topN == 10

Take(s, n) == SubSeq(s, 1, IF Len(s) < n THEN Len(s) ELSE n)

\* findHubPages without the sort.Slice call: the first nodes met are kept
findHubPages_Unsorted(nodes, order, limit) ==
    LET counts == [k \in 1..Len(order) |->
                      [pageName |-> order[k], key |-> nodes[order[k]].ReferenceCount]]
        top    == Take(SelectSeq(counts, LAMBDA c : c.key > 0), limit)
    IN  [k \in 1..Len(top) |-> top[k].pageName]

\* findHubPages, the map iterated in the order given
findHubPages(nodes, order, limit) ==
    LET counts == [k \in 1..Len(order) |->
                      [pageName |-> order[k], key |-> nodes[order[k]].ReferenceCount]]
        sorted == SortDesc(SelectSeq(counts, LAMBDA c : c.key > 0))
        top    == Take(sorted, limit)
    IN  [k \in 1..Len(top) |-> top[k].pageName]
(***************************************************************************)
(* internal/indexer/missing_pages_indexer.go                               *)
(***************************************************************************)
IsUpper(c) == c \in {"A", "B", "C", "D", "E", "F", "G", "H", "I", "J", "K", "L", "M", "N", "O", "P", "Q", "R", "S", "T", "U", "V", "W", "X", "Y", "Z"}

looksLikeName(s) ==
    LET words == Fields(s)
    IN  /\ Len(words) >= 2 /\ Len(words) <= 4
        /\ \A k \in 1..Len(words) : Len(words[k]) > 0 /\ IsUpper(words[k][1])

dateKeywords ==
    << <<"J", "a", "n">>,
       <<"F", "e", "b">>,
       <<"M", "a", "r">>,
       <<"A", "p", "r">>,
       <<"M", "a", "y">>,
       <<"J", "u", "n">>,
       <<"J", "u", "l">>,
       <<"A", "u", "g">>,
       <<"S", "e", "p">>,
       <<"O", "c", "t">>,
       <<"N", "o", "v">>,
       <<"D", "e", "c">>,
       <<"t", "h", ",">>,
       <<"s", "t", ",">>,
       <<"n", "d", ",">>,
       <<"r", "d", ",">> >>

projectKeywords ==
    << <<"S", "p", "r", "i", "n", "t">>,
       <<"P", "r", "o", "j", "e", "c", "t">>,
       <<"P", "h", "a", "s", "e">>,
       <<"R", "e", "l", "e", "a", "s", "e">>,
       <<"M", "i", "l", "e", "s", "t", "o", "n", "e">> >>

techKeywords ==
    << <<"A", "P", "I">>,
       <<"S", "e", "r", "v", "i", "c", "e">>,
       <<"A", "r", "c", "h", "i", "t", "e", "c", "t", "u", "r", "e">>,
       <<"S", "y", "s", "t", "e", "m">>,
       <<"D", "e", "s", "i", "g", "n">>,
       <<"F", "r", "a", "m", "e", "w", "o", "r", "k">>,
       <<"D", "a", "t", "a", "b", "a", "s", "e">>,
       <<"S", "e", "r", "v", "e", "r">>,
       <<"T", "e", "a", "m">>,
       <<"S", "t", "a", "c", "k">>,
       <<"P", "l", "a", "t", "f", "o", "r", "m">> >>

ContainsAny(pageName, keywords) ==
    \E k \in 1..Len(keywords) : Contains(pageName, keywords[k])

\* classifyPageType with the name shape tried before the technical keywords
classifyPageType_NameBeforeTech(pageName) ==
    IF Contains(pageName, <<" ", "-", " ">>)
    THEN LET parts == Split(pageName, <<" ", "-", " ">>)
         IN  IF Len(parts) = 2 /\ looksLikeName(parts[1]) THEN "person" ELSE "concept"
    ELSE IF ContainsAny(pageName, dateKeywords) THEN "date"
    ELSE IF ContainsAny(pageName, projectKeywords) THEN "project"
    ELSE IF Len(Fields(pageName)) >= 2 /\ Len(Fields(pageName)) <= 3
            /\ looksLikeName(pageName) THEN "person"
    ELSE "concept"

\* classifyPageType with the date keywords tried before the " - " pattern
classifyPageType_DateFirst(pageName) ==
    IF ContainsAny(pageName, dateKeywords) THEN "date"
    ELSE IF Contains(pageName, <<" ", "-", " ">>)
    THEN LET parts == Split(pageName, <<" ", "-", " ">>)
         IN  IF Len(parts) = 2 /\ looksLikeName(parts[1]) THEN "person" ELSE "concept"
    ELSE "concept"

classifyPageType(pageName) ==
    IF Contains(pageName, <<" ", "-", " ">>)
    THEN LET parts == Split(pageName, <<" ", "-", " ">>)
         IN  IF Len(parts) = 2 /\ looksLikeName(parts[1]) THEN "person" ELSE "concept"
    ELSE IF ContainsAny(pageName, dateKeywords) THEN "date"
    ELSE IF ContainsAny(pageName, projectKeywords) THEN "project"
    ELSE IF ContainsAny(pageName, techKeywords) THEN "concept"
    ELSE IF Len(Fields(pageName)) >= 2 /\ Len(Fields(pageName)) <= 3
            /\ looksLikeName(pageName) THEN "person"
    ELSE "concept"

\* the unique entries of a slice, in order of first appearance
RECURSIVE Dedup(_, _)
Dedup(slice, seen) ==
    IF slice = <<>> THEN <<>>
    ELSE IF Head(slice) \in seen THEN Dedup(Tail(slice), seen)
    ELSE <<Head(slice)>> \o Dedup(Tail(slice), seen \cup {Head(slice)})

MaxReferencedFrom == 10

MissingPageOf(nodes, pageName) ==
    [Name           |-> pageName,
     ReferenceCount |-> nodes[pageName].ReferenceCount,
     PageType       |-> classifyPageType(pageName),
     ReferencedFrom |-> Take(Dedup(nodes[pageName].InboundRefs, {}), MaxReferencedFrom)]

\* mutant: a page with exactly threshold references is skipped
IsMissingPage_Strict(nodes, pageName, threshold) ==
    /\ ~(nodes[pageName].FilePath # <<>>)
    /\ ~(nodes[pageName].ReferenceCount <= threshold)

\* the pages the loop of BuildMissingPagesIndex keeps
IsMissingPage(nodes, pageName, threshold) ==
    /\ ~(nodes[pageName].FilePath # <<>>)
    /\ ~(nodes[pageName].ReferenceCount < threshold)

\* BuildMissingPagesIndex, the map iterated in the order given
BuildMissingPagesIndex(nodes, order, threshold) ==
    LET kept   == SelectSeq(order, LAMBDA n : IsMissingPage(nodes, n, threshold))
        keyed  == [k \in 1..Len(kept) |->
                      [key |-> nodes[kept[k]].ReferenceCount,
                       val |-> MissingPageOf(nodes, kept[k])]]
        sorted == SortDesc(keyed)
    IN  [k \in 1..Len(sorted) |-> sorted[k].val]

(***************************************************************************)
(* SpecGraph: BuildReferenceGraph, then BuildMissingPagesIndex             *)
(***************************************************************************)
NameA == <<"A">>
NameB == <<"B">>
NameX == <<"X">>

PageFile(dir, name) ==
    [Path |-> <<dir, "/">> \o name \o <<".", "m", "d">>,
     Type |-> IF dir = "j" THEN "journal" ELSE "page"]

\* the file lists the scanner may give: journals first, then pages
FileLists ==
    { <<>>,
      <<PageFile("p", NameA)>>,
      <<PageFile("p", NameA), PageFile("p", NameB)>>,
      <<PageFile("j", NameA), PageFile("p", NameA)>>,
      <<PageFile("j", NameB), PageFile("p", NameA)>> }

\* links from A, B or X to B (a note in some file lists) or X (never a note)
RefSpace ==
    [SourcePage : {NameA, NameB, NameX}, TargetPage : {NameB, NameX}]

Thresholds == {1, 2, 3}

GraphInit ==
    /\ pc = "graph"
    /\ files \in FileLists
    /\ refs = <<>> /\ Nodes = <<>> /\ HubPages = <<>>
    /\ MissingPages = <<>> /\ Threshold = 0
    /\ graphOthersIdle

\* BuildReferenceGraph: create nodes for all files
GraphSeed ==
    /\ pc = "graph"
    /\ Nodes' = SeedNodes(files, <<>>)
    /\ pc' = "refs"
    /\ UNCHANGED <<files, refs, HubPages, MissingPages, Threshold, graphOthers>>

\* BuildReferenceGraph: the loop body, for the next LinkRecord of the list
GraphAddReference ==
    /\ pc = "refs"
    /\ Len(refs) < MaxRefs
    /\ \E ref \in RefSpace :
          /\ refs' = Append(refs, ref)
          /\ Nodes' = AddRef(Nodes, ref)
    /\ UNCHANGED <<pc, files, HubPages, MissingPages, Threshold, graphOthers>>

\* BuildReferenceGraph: the list is exhausted, identify hub pages and return
GraphFindHubPages ==
    /\ pc = "refs"
    /\ \E order \in AllOrders(DOMAIN Nodes) :
          HubPages' = findHubPages(Nodes, order, topN)
    /\ pc' = "built"
    /\ UNCHANGED <<files, refs, Nodes, MissingPages, Threshold, graphOthers>>

GraphBuildMissingPages ==
    /\ pc = "built"
    /\ \E threshold \in Thresholds, order \in AllOrders(DOMAIN Nodes) :
          /\ MissingPages' = BuildMissingPagesIndex(Nodes, order, threshold)
          /\ Threshold' = threshold
    /\ pc' = "missing"
    /\ UNCHANGED <<files, refs, Nodes, HubPages, graphOthers>>

GraphNext ==
    GraphSeed \/ GraphAddReference \/ GraphFindHubPages \/ GraphBuildMissingPages

SpecGraph == GraphInit /\ [][GraphNext]_vars
(***************************************************************************)
(* Properties of the reference graph and of the missing pages              *)
(***************************************************************************)
GraphSeeded == pc \in {"refs", "built", "missing"}

NoDuplicates(slice) ==
    \A a, b \in 1..Len(slice) : slice[a] = slice[b] => a = b

\* C3: every node's ReferenceCount is the length of its InboundRefs, and
\* neither InboundRefs nor OutboundRefs holds a page name twice, whatever
\* duplicate LinkRecords were given.
C3_CountIsInboundLengthNoDuplicates ==
    GraphSeeded =>
        \A n \in DOMAIN Nodes :
            /\ Nodes[n].ReferenceCount = Len(Nodes[n].InboundRefs)
            /\ NoDuplicates(Nodes[n].InboundRefs)
            /\ NoDuplicates(Nodes[n].OutboundRefs)

\* the same (source, target) LinkRecord given twice, from a page with a node
C3_Witness ==
    /\ pc = "built"
    /\ \E a, b \in 1..Len(refs) :
          /\ a # b /\ refs[a] = refs[b]
          /\ refs[a].SourcePage \in DOMAIN Nodes
          /\ Nodes[refs[a].SourcePage].FilePath # <<>>
          /\ Nodes[refs[a].TargetPage].ReferenceCount = 1

\* C4: the missing pages are exactly the nodes with an empty file path and
\* ReferenceCount >= threshold, each once, by ReferenceCount non-increasing.
C4_MissingPagesExactAndSorted ==
    pc = "missing" =>
        /\ {MissingPages[k].Name : k \in 1..Len(MissingPages)} =
              {n \in DOMAIN Nodes :
                  Nodes[n].FilePath = <<>> /\ Nodes[n].ReferenceCount >= Threshold}
        /\ \A a, b \in 1..Len(MissingPages) :
              MissingPages[a].Name = MissingPages[b].Name => a = b
        /\ \A k \in 1..Len(MissingPages) :
              MissingPages[k].ReferenceCount = Nodes[MissingPages[k].Name].ReferenceCount
        /\ \A a, b \in 1..Len(MissingPages) :
              a < b => MissingPages[a].ReferenceCount >= MissingPages[b].ReferenceCount

\* a phantom with threshold-1 references left out, one with exactly
\* threshold kept, and a node with a backing file left out
C4_Witness ==
    /\ pc = "missing"
    /\ Threshold = 2
    /\ \E n \in DOMAIN Nodes :
          Nodes[n].FilePath = <<>> /\ Nodes[n].ReferenceCount = Threshold - 1
    /\ \E n \in DOMAIN Nodes : Nodes[n].FilePath # <<>>
    /\ Len(MissingPages) = 1
    /\ MissingPages[1].ReferenceCount = Threshold

\* the page name of a note: its base file name without the .md extension
BaseNameNoExt(path) ==
    LET slashes == {k \in 1..Len(path) : path[k] = "/"}
        from == IF slashes = {} THEN 1
                ELSE (CHOOSE k \in slashes : \A m \in slashes : m <= k) + 1
        base == SubSeq(path, from, Len(path))
    IN  IF Len(base) >= 3 /\ SubSeq(base, Len(base) - 2, Len(base)) = <<".", "m", "d">>
        THEN SubSeq(base, 1, Len(base) - 3) ELSE base

FilePageNames == {BaseNameNoExt(files[k].Path) : k \in 1..Len(files)}

LinkTargets == {refs[k].TargetPage : k \in 1..Len(refs)}

filepathBase(path) ==
    LET solid   == {k \in 1..Len(path) : path[k] # "/"}
        last    == CHOOSE k \in solid : \A m \in solid : m <= k
        cut     == SubSeq(path, 1, last)
        slashes == {k \in 1..Len(cut) : cut[k] = "/"}
        from    == IF slashes = {} THEN 0
                   ELSE CHOOSE k \in slashes : \A m \in slashes : m <= k
    IN  IF path = <<>> THEN <<".">>
        ELSE IF solid = {} THEN <<"/">>
        ELSE SubSeq(cut, from + 1, Len(cut))

TrimSuffix(s, suffix) ==
    IF Len(s) >= Len(suffix) /\ SubSeq(s, Len(s) - Len(suffix) + 1, Len(s)) = suffix
    THEN SubSeq(s, 1, Len(s) - Len(suffix))
    ELSE s

isLeap(year) == year % 4 = 0 /\ (year % 100 # 0 \/ year % 400 = 0)

daysIn(month, year) ==
    IF month = 2 THEN (IF isLeap(year) THEN 29 ELSE 28)
    ELSE IF month \in {4, 6, 9, 11} THEN 30
    ELSE 31

SecondsPerDay == 86400

\* the days from 1970-01-01 to the calendar date year-month-day
DaysFromCivil(year, month, day) ==
    LET y   == IF month <= 2 THEN year - 1 ELSE year
        era == y \div 400
        yoe == y - era * 400
        mp  == IF month > 2 THEN month - 3 ELSE month + 9
        doy == (153 * mp + 2) \div 5 + day - 1
        doe == yoe * 365 + yoe \div 4 - yoe \div 100 + doy
    IN  era * 146097 + doe - 719468

\* the calendar date that lies z days after 1970-01-01
CivilFromDays(z) ==
    LET zz  == z + 719468
        era == zz \div 146097
        doe == zz - era * 146097
        yoe == (doe - doe \div 1460 + doe \div 36524 - doe \div 146096) \div 365
        doy == doe - (365 * yoe + yoe \div 4 - yoe \div 100)
        mp  == (5 * doy + 2) \div 153
        d   == doy - (153 * mp + 2) \div 5 + 1
        m   == IF mp < 10 THEN mp + 3 ELSE mp - 9
    IN  [year |-> yoe + era * 400 + (IF m <= 2 THEN 1 ELSE 0), month |-> m, day |-> d]

\* a time.Time in UTC is its number of seconds since 1970-01-01 00:00:00;
\* time.Date(year, month, day, 0, 0, 0, 0, time.UTC)
DateOf(year, month, day) == DaysFromCivil(year, month, day) * SecondsPerDay

NoDate == [err |-> TRUE, t |-> 0]

\* time.Parse with the layout 2006<sep>01<sep>02: a year of four digits, a
\* month and a day of two digits each, the separators as written, nothing
\* after the day, and the day one that the month has
ParseDate(sep, value) ==
    LET digit(k) == k <= Len(value) /\ value[k] \in DOMAIN DigitVal
        lit(k)   == k <= Len(value) /\ value[k] = sep
        year     == DigitVal[value[1]] * 1000 + DigitVal[value[2]] * 100
                    + DigitVal[value[3]] * 10 + DigitVal[value[4]]
        month    == DigitVal[value[6]] * 10 + DigitVal[value[7]]
        day      == DigitVal[value[9]] * 10 + DigitVal[value[10]]
    IN  IF ~(digit(1) /\ digit(2) /\ digit(3) /\ digit(4)) THEN NoDate
        ELSE IF ~lit(5) THEN NoDate
        ELSE IF ~(digit(6) /\ digit(7)) THEN NoDate
        ELSE IF month <= 0 \/ 12 < month THEN NoDate
        ELSE IF ~lit(8) THEN NoDate
        ELSE IF ~(digit(9) /\ digit(10)) THEN NoDate
        ELSE IF Len(value) > 10 THEN NoDate
        ELSE IF day < 1 \/ day > daysIn(month, year) THEN NoDate
        ELSE [err |-> FALSE, t |-> DateOf(year, month, day)]

extractDateFromJournalPath(path) ==
    LET filename   == TrimSuffix(filepathBase(path), <<".", "m", "d">>)
        underscore == ParseDate("_", filename)
        dash       == ParseDate("-", filename)
    IN  IF Contains(filename, <<"_">>) /\ ~underscore.err THEN underscore
        ELSE IF Contains(filename, <<"-">>) /\ ~dash.err THEN dash
        ELSE NoDate

DigitChar == <<"0", "1", "2", "3", "4", "5", "6", "7", "8", "9">>

\* the decimal digits of n, at least width of them
RECURSIVE Itoa(_, _)
Itoa(n, width) ==
    IF n < 10 /\ width <= 1 THEN <<DigitChar[n + 1]>>
    ELSE Append(Itoa(n \div 10, width - 1), DigitChar[(n % 10) + 1])

\* date.Format("2006-01-02")
FormatDate(t) ==
    LET date == CivilFromDays(t \div SecondsPerDay)
    IN  Itoa(date.year, 4) \o <<"-">> \o Itoa(date.month, 2) \o <<"-">> \o Itoa(date.day, 2)

\* Task.TotalDuration
RECURSIVE TotalDuration(_)
TotalDuration(logbook) ==
    IF logbook = <<>> THEN 0
    ELSE Head(logbook).Duration + TotalDuration(Tail(logbook))

formatTaskCount(count, status) ==
    IF count = 1 THEN <<"1", " ">> \o StatusText[status] \o <<" ", "t", "a", "s", "k">>
    ELSE Itoa(count, 1) \o <<" ">> \o StatusText[status]
             \o <<" ", "t", "a", "s", "k", "s">>

\* mutant: the description is cut after 60 characters, before the ellipsis
Highlight_CutAtSixty(task) ==
    LET desc == task.Description
    IN  <<"fire", " ">> \o (IF Len(desc) > 60
                          THEN SubSeq(desc, 1, 60) \o <<".", ".", ".">>
                          ELSE desc)

\* the highlight line of a task; "fire" stands for the fire emoji
Highlight(task) ==
    LET desc == task.Description
    IN  <<"fire", " ">> \o (IF Len(desc) > 60
                          THEN SubSeq(desc, 1, 57) \o <<".", ".", ".">>
                          ELSE desc)

generateKeyActivity(day) ==
    LET created      == day.TasksCreated
        statusCounts == [st \in DOMAIN StatusText |->
                            Len(SelectSeq(created, LAMBDA t : t.Status = st))]
        highPriority == SelectSeq(created, LAMBDA t : t.Priority = "A")
        line(st)     == IF statusCounts[st] > 0
                        THEN <<formatTaskCount(statusCounts[st], st)>> ELSE <<>>
    IN  IF Len(created) = 0 THEN <<>>
        ELSE line("NOW") \o line("DOING") \o line("TODO") \o line("LATER")
                 \o line("DONE")
                 \o [k \in 1..Len(Take(highPriority, 2)) |-> Highlight(highPriority[k])]

\* mutant: the kind of the file is not looked at
SeedDay_AnyKind(days, file) ==
    LET date    == extractDateFromJournalPath(file.Path)
        dateKey == FormatDate(date.t)
    IN  IF date.err \/ dateKey \in DOMAIN days THEN days
        ELSE [k \in DOMAIN days \cup {dateKey} |->
                 IF k = dateKey
                 THEN [Date |-> date.t, JournalPath |-> file.Path,
                       TasksCreated |-> <<>>, TimeLogged |-> 0, KeyActivity |-> <<>>]
                 ELSE days[k]]

\* one turn of the first loop of BuildTimelineIndex
SeedDay(days, file) ==
    LET date    == extractDateFromJournalPath(file.Path)
        dateKey == FormatDate(date.t)
    IN  IF file.Type # "journal" THEN days
        ELSE IF date.err THEN days
        ELSE IF dateKey \in DOMAIN days THEN days
        ELSE [k \in DOMAIN days \cup {dateKey} |->
                 IF k = dateKey
                 THEN [Date |-> date.t, JournalPath |-> file.Path,
                       TasksCreated |-> <<>>, TimeLogged |-> 0, KeyActivity |-> <<>>]
                 ELSE days[k]]

RECURSIVE SeedDays(_, _)
SeedDays(fs, days) ==
    IF fs = <<>> THEN days ELSE SeedDays(Tail(fs), SeedDay(days, Head(fs)))

\* one turn of the second loop of BuildTimelineIndex
AddTaskToDay(days, task) ==
    LET date    == extractDateFromJournalPath(task.SourceFile)
        dateKey == FormatDate(date.t)
    IN  IF date.err THEN days
        ELSE IF dateKey \notin DOMAIN days THEN days
        ELSE [days EXCEPT ![dateKey] =
                 [@ EXCEPT !.TasksCreated = Append(@, task),
                           !.TimeLogged = @ + TotalDuration(task.Logbook)]]

\* the days of the map in the order the map is walked, sorted newest first
SortedEntries(days, order) ==
    LET keyed  == [k \in 1..Len(order) |-> [day |-> days[order[k]], key |-> days[order[k]].Date]]
        sorted == SortDesc(keyed)
    IN  [k \in 1..Len(sorted) |-> sorted[k].day]

(***************************************************************************)
(* SpecTimeline: BuildTimelineIndex over a file list and a task list       *)
(***************************************************************************)

Chars_2025_11_0 == <<"2", "0", "2", "5", "_", "1", "1", "_", "0">>

JournalOf(name) == [Path |-> <<"j", "/">> \o name \o <<".", "m", "d">>, Type |-> "journal"]
PageOf(name) == [Path |-> <<"p", "/">> \o name \o <<".", "m", "d">>, Type |-> "page"]

Nov5 == Chars_2025_11_0 \o <<"5">>
Nov6 == Chars_2025_11_0 \o <<"6">>
Nov7 == Chars_2025_11_0 \o <<"7">>
Nov6Dash == <<"2", "0", "2", "5", "-", "1", "1", "-", "0", "6">>
Feb30 == <<"2", "0", "2", "5", "_", "0", "2", "_", "3", "0">>
Feb29 == <<"2", "0", "2", "4", "_", "0", "2", "_", "2", "9">>
Nov6Mixed == <<"2", "0", "2", "5", "_", "1", "1", "-", "0", "6">>
Undated == <<"n", "_", "1">>

\* the file lists the scanner may give: journals first, then pages
TimelineFileLists ==
    { <<>>,
      <<JournalOf(Nov6)>>,
      <<PageOf(Nov5), PageOf(NameA)>>,
      <<JournalOf(Nov5), JournalOf(Nov6), JournalOf(Nov7)>>,
      <<JournalOf(Nov7), JournalOf(Nov6Dash), JournalOf(Nov6), PageOf(Nov5)>>,
      <<JournalOf(Nov6), JournalOf(Nov6Dash), JournalOf(Undated), PageOf(NameA)>>,
      <<JournalOf(Feb29), JournalOf(Feb30), JournalOf(Nov6Mixed), JournalOf(Nov5)>>,
      <<JournalOf(Nov6), JournalOf(Feb29), JournalOf(Nov7), PageOf(Nov5)>>,
      <<JournalOf(Nov5), PageOf(Nov5), PageOf(NameA)>> }

LogEntry(start, duration) == [Start |-> start, End |-> start + duration, Duration |-> duration]

\* the task records the parser may give
TimelineTasks ==
    { [Status |-> "NOW", Priority |-> "A", Description |-> <<"x">>, PageRefs |-> <<>>,
       SourceFile |-> JournalOf(Nov6).Path, LineNumber |-> 1,
       Logbook |-> <<LogEntry(36000, 7200)>>],
      [Status |-> "DONE", Priority |-> "", Description |-> <<"y">>, PageRefs |-> <<>>,
       SourceFile |-> JournalOf(Nov6Dash).Path, LineNumber |-> 2, Logbook |-> <<>>],
      [Status |-> "NOW", Priority |-> "A", Description |-> <<"z">>, PageRefs |-> <<NameA>>,
       SourceFile |-> JournalOf(Nov7).Path, LineNumber |-> 1,
       Logbook |-> <<LogEntry(36000, 60), LogEntry(43200, 0)>>],
      [Status |-> "TODO", Priority |-> "B", Description |-> <<"x">>, PageRefs |-> <<>>,
       SourceFile |-> PageOf(Nov5).Path, LineNumber |-> 3, Logbook |-> <<>>],
      [Status |-> "LATER", Priority |-> "C", Description |-> <<"y">>, PageRefs |-> <<>>,
       SourceFile |-> PageOf(NameA).Path, LineNumber |-> 1, Logbook |-> <<>>] }

TimelineInit ==
    /\ pc = "timeline"
    /\ files \in TimelineFileLists
    /\ tasks = <<>>
    /\ dayMap = <<>>
    /\ Entries = <<>>
    /\ timelineOthersIdle

\* the loop over the files
TimelineSeedDays ==
    /\ pc = "timeline"
    /\ pc' = "days"
    /\ dayMap' = SeedDays(files, <<>>)
    /\ UNCHANGED <<tasks, files, Entries, timelineOthers>>

\* one turn of the loop over the tasks; a task comes from a note of the list
TimelineAddTask ==
    /\ pc = "days"
    /\ Len(tasks) < MaxTasks
    /\ \E task \in TimelineTasks :
          /\ \E k \in 1..Len(files) : files[k].Path = task.SourceFile
          /\ tasks' = Append(tasks, task)
          /\ dayMap' = AddTaskToDay(dayMap, task)
    /\ UNCHANGED <<pc, files, Entries, timelineOthers>>

\* the key activity of each day, then the map turned into the sorted slice
TimelineSortEntries ==
    /\ pc = "days"
    /\ pc' = "timelineDone"
    /\ dayMap' = [k \in DOMAIN dayMap |->
                     [dayMap[k] EXCEPT !.KeyActivity = generateKeyActivity(dayMap[k])]]
    /\ \E order \in AllOrders(DOMAIN dayMap) :
          Entries' = SortedEntries(dayMap', order)
    /\ UNCHANGED <<tasks, files, timelineOthers>>

TimelineNext == TimelineSeedDays \/ TimelineAddTask \/ TimelineSortEntries

SpecTimeline == TimelineInit /\ [][TimelineNext]_vars

\* the sum of a sequence of numbers
RECURSIVE SumSeq(_)
SumSeq(nums) == IF nums = <<>> THEN 0 ELSE Head(nums) + SumSeq(Tail(nums))

\* the total logged duration of a task
TotalOf(task) == SumSeq([e \in 1..Len(task.Logbook) |-> task.Logbook[e].Duration])

\* the sum of the totals of a sequence of tasks
SumOfTotals(ts) == SumSeq([k \in 1..Len(ts) |-> TotalOf(ts[k])])

\* the base name of a path without its .md ending
JournalBaseName(path) == TrimSuffix(filepathBase(path), <<".", "m", "d">>)

\* name is YYYY<sep>MM<sep>DD and names a calendar date
IsDateName(name, sep) ==
    /\ Len(name) = 10
    /\ \A k \in {1, 2, 3, 4, 6, 7, 9, 10} : name[k] \in DOMAIN DigitVal
    /\ name[5] = sep /\ name[8] = sep
    /\ LET y == DigitVal[name[1]] * 1000 + DigitVal[name[2]] * 100
                + DigitVal[name[3]] * 10 + DigitVal[name[4]]
           m == DigitVal[name[6]] * 10 + DigitVal[name[7]]
           d == DigitVal[name[9]] * 10 + DigitVal[name[10]]
       IN  m \in 1..12 /\ d \in 1..daysIn(m, y)

IsDatedJournal(file) ==
    /\ file.Type = "journal"
    /\ \E sep \in {"_", "-"} : IsDateName(JournalBaseName(file.Path), sep)

\* the calendar date a dated name stands for, written YYYY-MM-DD
DateDigits(name) ==
    SubSeq(name, 1, 4) \o <<"-">> \o SubSeq(name, 6, 7) \o <<"-">> \o SubSeq(name, 9, 10)

\* the calendar date of a midnight, written YYYY-MM-DD
DigitsOfDay(t) ==
    LET days == CHOOSE z \in 0..30000 : z * SecondsPerDay = t
        date == CivilFromDays(days)
    IN  Itoa(date.year, 4) \o <<"-">> \o Itoa(date.month, 2) \o <<"-">> \o Itoa(date.day, 2)

JournalDates ==
    {DateDigits(JournalBaseName(files[k].Path)) :
        k \in {j \in 1..Len(files) : IsDatedJournal(files[j])}}

\* C5: the timeline has exactly one day per distinct calendar date of the
\* journal-kind files named YYYY_MM_DD or YYYY-MM-DD, none for page-kind
\* files or journal files named otherwise, a day with no task included, and
\* the days are in strictly descending date order.
C5_OneDayPerJournalDateNewestFirst ==
    pc = "timelineDone" =>
        /\ {DigitsOfDay(Entries[k].Date) : k \in 1..Len(Entries)} = JournalDates
        /\ Len(Entries) = Cardinality(JournalDates)
        /\ \A k \in 1..(Len(Entries) - 1) : Entries[k].Date > Entries[k + 1].Date

\* two days out of four files, one of them without a task, beside a
\* page-kind file with a dated name and two journal files of the same date
C5_Witness ==
    /\ pc = "timelineDone"
    /\ Len(Entries) = 2
    /\ Len(files) = 4
    /\ \E k \in 1..Len(Entries) : Entries[k].TasksCreated = <<>>
    /\ \E k \in 1..Len(Entries) : Entries[k].TasksCreated # <<>>
    /\ \E k \in 1..Len(files) :
          files[k].Type = "page" /\ ~extractDateFromJournalPath(files[k].Path).err
    /\ \E a, b \in 1..Len(files) :
          /\ a # b /\ IsDatedJournal(files[a]) /\ IsDatedJournal(files[b])
          /\ DateDigits(JournalBaseName(files[a].Path)) = DateDigits(JournalBaseName(files[b].Path))


\* the task comes from a journal-kind note of the list whose name is the
\* date of the day
FromJournalOfDay(task, day) ==
    \E k \in 1..Len(files) :
        /\ files[k].Path = task.SourceFile
        /\ IsDatedJournal(files[k])
        /\ DateDigits(JournalBaseName(files[k].Path)) = DigitsOfDay(day.Date)

\* C11: every task of a TimelineDay comes from a dated journal note of that
\* day, so a task from a note that is not a dated journal (a note under
\* pages/, say) is in no day and adds nothing to a day's TimeLogged.
C11_OnlyJournalTasksInDays ==
    \A key \in DOMAIN dayMap :
        LET day == dayMap[key]
        IN  /\ \A k \in 1..Len(day.TasksCreated) : FromJournalOfDay(day.TasksCreated[k], day)
            /\ day.TimeLogged =
                  SumOfTotals(SelectSeq(tasks, LAMBDA t : FromJournalOfDay(t, day)))

\* what does hold: a task is in the day, and only in the day, whose date its
\* source file's base name spells, whatever the kind of that file
TasksInDayOfTheirFileName ==
    \A key \in DOMAIN dayMap :
        dayMap[key].TasksCreated =
            SelectSeq(tasks, LAMBDA t :
                /\ ~extractDateFromJournalPath(t.SourceFile).err
                /\ FormatDate(extractDateFromJournalPath(t.SourceFile).t) = key)

(***************************************************************************)
(* unnamed/part_004 (BuildTimeTrackingIndex): time logged per project,     *)
(* week, priority and status                                               *)
(***************************************************************************)

NoProject == <<"N", "o", " ", "P", "r", "o", "j", "e", "c", "t">>

\* time.Time{}: earlier than every time of the model
ZeroTime == -2000000000

\* float64(num) / float64(den) * 100, kept as the fraction it is computed from
Percent(num, den) == [num |-> num, den |-> den]

\* m[k] of a Go map of numbers: zero for a key that is not there
At(m, k) == IF k \in DOMAIN m THEN m[k] ELSE 0

\* m[k] += v
AddAt(m, k, v) == [x \in DOMAIN m \cup {k} |-> IF x = k THEN At(m, k) + v ELSE m[x]]

\* t.Weekday(): 0 is Sunday; 1970-01-01 was a Thursday
Weekday(t) == ((t \div SecondsPerDay) + 4) % 7

\* mutant: Sunday is not told apart from the other days
getWeekStart_NoSundayCase(t) ==
    ((t \div SecondsPerDay) - (Weekday(t) - 1)) * SecondsPerDay

getWeekStart(t) ==
    LET weekday      == Weekday(t)
        daysToMonday == IF weekday = 0 THEN 6 ELSE weekday - 1
    IN  ((t \div SecondsPerDay) - daysToMonday) * SecondsPerDay

NewTimeTrackingIndex ==
    [TotalTimeLogged |-> 0, ByProject |-> <<>>, ByWeek |-> <<>>, ByPriority |-> <<>>,
     ByStatus |-> <<>>, TopProjects |-> <<>>, WeeklySummary |-> <<>>,
     Statistics |-> [TotalTasks |-> 0, TasksWithTracking |-> 0,
                     TasksWithoutTracking |-> 0, AdoptionRate |-> Percent(0, 1),
                     AvgTimePerTask |-> 0,
                     MostProductiveWeek |->
                         [WeekStart |-> ZeroTime, TimeLogged |-> 0, TaskCount |-> 0]]]

\* the loop over the log entries of a tracked task
RECURSIVE WeekLoop(_, _, _)
WeekLoop(logbook, byWeek, counts) ==
    IF logbook = <<>> THEN [ByWeek |-> byWeek, weekTaskCounts |-> counts]
    ELSE LET entry   == Head(logbook)
             weekKey == FormatDate(getWeekStart(entry.Start))
         IN  WeekLoop(Tail(logbook), AddAt(byWeek, weekKey, entry.Duration),
                      AddAt(counts, weekKey, 1))

\* the locals and the index of BuildTimeTrackingIndex, as one value
TrackingState(index, projects, weeks, tracked) ==
    [index |-> index, projectTaskCounts |-> projects, weekTaskCounts |-> weeks,
     tasksWithTracking |-> tracked]

\* mutant: the test of the task's total is left out
TrackTask_NoGuard(st, task) ==
    LET index         == st.index
        totalTaskTime == TotalDuration(task.Logbook)
        project       == IF Len(task.PageRefs) > 0 THEN task.PageRefs[1] ELSE NoProject
        weeks         == WeekLoop(task.Logbook, index.ByWeek, st.weekTaskCounts)
    IN  TrackingState(
            [index EXCEPT !.Statistics.TotalTasks = @ + 1,
                          !.TotalTimeLogged = @ + totalTaskTime,
                          !.ByProject = AddAt(@, project, totalTaskTime),
                          !.ByWeek = weeks.ByWeek,
                          !.ByPriority = AddAt(@, task.Priority, totalTaskTime),
                          !.ByStatus = AddAt(@, task.Status, totalTaskTime)],
            AddAt(st.projectTaskCounts, project, 1),
            weeks.weekTaskCounts,
            st.tasksWithTracking + 1)

\* mutant: a task without a priority adds nothing to ByPriority
TrackTask_PriorityRequired(st, task) ==
    LET index         == st.index
        totalTaskTime == TotalDuration(task.Logbook)
        project       == IF Len(task.PageRefs) > 0 THEN task.PageRefs[1] ELSE NoProject
        weeks         == WeekLoop(task.Logbook, index.ByWeek, st.weekTaskCounts)
    IN  IF totalTaskTime > 0
        THEN TrackingState(
                 [index EXCEPT !.Statistics.TotalTasks = @ + 1,
                               !.TotalTimeLogged = @ + totalTaskTime,
                               !.ByProject = AddAt(@, project, totalTaskTime),
                               !.ByWeek = weeks.ByWeek,
                               !.ByPriority = IF task.Priority = "" THEN @
                                              ELSE AddAt(@, task.Priority, totalTaskTime),
                               !.ByStatus = AddAt(@, task.Status, totalTaskTime)],
                 AddAt(st.projectTaskCounts, project, 1),
                 weeks.weekTaskCounts,
                 st.tasksWithTracking + 1)
        ELSE TrackingState([index EXCEPT !.Statistics.TotalTasks = @ + 1],
                           st.projectTaskCounts, st.weekTaskCounts, st.tasksWithTracking)

\* one turn of the loop over the tasks
TrackTask(st, task) ==
    LET index         == st.index
        totalTaskTime == TotalDuration(task.Logbook)
        project       == IF Len(task.PageRefs) > 0 THEN task.PageRefs[1] ELSE NoProject
        weeks         == WeekLoop(task.Logbook, index.ByWeek, st.weekTaskCounts)
    IN  IF totalTaskTime > 0
        THEN TrackingState(
                 [index EXCEPT !.Statistics.TotalTasks = @ + 1,
                               !.TotalTimeLogged = @ + totalTaskTime,
                               !.ByProject = AddAt(@, project, totalTaskTime),
                               !.ByWeek = weeks.ByWeek,
                               !.ByPriority = AddAt(@, task.Priority, totalTaskTime),
                               !.ByStatus = AddAt(@, task.Status, totalTaskTime)],
                 AddAt(st.projectTaskCounts, project, 1),
                 weeks.weekTaskCounts,
                 st.tasksWithTracking + 1)
        ELSE TrackingState([index EXCEPT !.Statistics.TotalTasks = @ + 1],
                           st.projectTaskCounts, st.weekTaskCounts, st.tasksWithTracking)

\* the statistics computed after the loop
WithStatistics(index, tracked) ==
    [index EXCEPT
        !.Statistics.TasksWithTracking = tracked,
        !.Statistics.TasksWithoutTracking = index.Statistics.TotalTasks - tracked,
        !.Statistics.AdoptionRate =
            IF index.Statistics.TotalTasks > 0
            THEN Percent(tracked, index.Statistics.TotalTasks) ELSE @,
        !.Statistics.AvgTimePerTask =
            IF tracked > 0 THEN index.TotalTimeLogged \div tracked ELSE @]

\* TopProjects: ByProject walked in the order given, then sorted
BuildTopProjects(index, projects, order) ==
    LET row(project) ==
            LET timeLogged == index.ByProject[project]
                taskCount  == At(projects, project)
            IN  [Project |-> project, TimeLogged |-> timeLogged, TaskCount |-> taskCount,
                 AvgTimePerTask |-> IF taskCount > 0 THEN timeLogged \div taskCount ELSE 0]
        keyed  == [k \in 1..Len(order) |->
                      [row |-> row(order[k]), key |-> index.ByProject[order[k]]]]
        sorted == SortDesc(keyed)
    IN  [k \in 1..Len(sorted) |-> sorted[k].row]

WeeklyOf(index, weeks, weekKey) ==
    [WeekStart |-> ParseDate("-", weekKey).t, TimeLogged |-> index.ByWeek[weekKey],
     TaskCount |-> At(weeks, weekKey)]

\* the most productive week while ByWeek is walked in the order given
RECURSIVE MostProductive(_, _, _, _)
MostProductive(index, weeks, order, best) ==
    IF order = <<>> THEN best
    ELSE LET weekly == WeeklyOf(index, weeks, Head(order))
         IN  MostProductive(index, weeks, Tail(order),
                            IF weekly.TimeLogged > best.TimeLogged THEN weekly ELSE best)

\* WeeklySummary: ByWeek walked in the order given, then sorted
BuildWeeklySummary(index, weeks, order) ==
    LET keyed  == [k \in 1..Len(order) |->
                      LET weekly == WeeklyOf(index, weeks, order[k])
                      IN  [row |-> weekly, key |-> weekly.WeekStart]]
        sorted == SortDesc(keyed)
    IN  [k \in 1..Len(sorted) |-> sorted[k].row]

(***************************************************************************)
(* SpecTime: BuildTimeTrackingIndex over a task list                       *)
(***************************************************************************)

Thu6  == DateOf(2025, 11, 6) + 36000
Sun9  == DateOf(2025, 11, 9) + 36000
Mon10 == DateOf(2025, 11, 10) + 36000

TaskOf(status, priority, pageRefs, lineNumber, logbook) ==
    [Status |-> status, Priority |-> priority, Description |-> <<"x">>,
     PageRefs |-> pageRefs, SourceFile |-> JournalOf(Nov6).Path,
     LineNumber |-> lineNumber, Logbook |-> logbook]

\* the task records the parser may give: no log entry, entries of zero
\* duration, entries in two weeks, and an entry whose duration is negative
\* (a clock line "=> 00:00:18446744073709548016": parseSimpleInt wraps the
\* seconds around the 64 bits of an int to -3600), and two entries in one week
TimeTasks ==
    { TaskOf("NOW", "A", <<NameA>>, 1, <<LogEntry(Thu6, 7200)>>),
      TaskOf("DONE", "", <<>>, 2, <<>>),
      TaskOf("TODO", "B", <<NameB>>, 3, <<LogEntry(Sun9, 0)>>),
      TaskOf("LATER", "C", <<>>, 4, <<LogEntry(Mon10, 60), LogEntry(Sun9, 0)>>),
      TaskOf("NOW", "A", <<NameA, NameB>>, 5, <<LogEntry(Mon10, 7200)>>),
      TaskOf("DOING", "", <<NameB>>, 6,
             <<[Start |-> Thu6, End |-> Thu6 + 3600, Duration |-> -3600]>>),
      TaskOf("DOING", "", <<NameB>>, 7,
             <<LogEntry(Thu6, 1800), LogEntry(Thu6 + SecondsPerDay, 1800)>>) }

TimeInit ==
    /\ pc = "time"
    /\ tasks = <<>>
    /\ timeIndex = NewTimeTrackingIndex
    /\ projectTaskCounts = <<>>
    /\ weekTaskCounts = <<>>
    /\ tasksWithTracking = 0
    /\ timeOthersIdle

\* one turn of the loop over the tasks
TimeTrackTask ==
    /\ pc = "time"
    /\ Len(tasks) < MaxTasks
    /\ \E task \in TimeTasks :
          LET st == TrackTask(TrackingState(timeIndex, projectTaskCounts,
                                            weekTaskCounts, tasksWithTracking), task)
          IN  /\ tasks' = Append(tasks, task)
              /\ timeIndex' = st.index
              /\ projectTaskCounts' = st.projectTaskCounts
              /\ weekTaskCounts' = st.weekTaskCounts
              /\ tasksWithTracking' = st.tasksWithTracking
    /\ UNCHANGED <<pc, timeOthers>>

\* the statistics, TopProjects and WeeklySummary after the loop
TimeSummarize ==
    /\ pc = "time"
    /\ pc' = "timeDone"
    /\ \E projectOrder \in AllOrders(DOMAIN timeIndex.ByProject) :
       \E weekOrder \in AllOrders(DOMAIN timeIndex.ByWeek) :
          LET index == WithStatistics(timeIndex, tasksWithTracking)
          IN  timeIndex' =
                 [index EXCEPT
                     !.TopProjects = BuildTopProjects(index, projectTaskCounts, projectOrder),
                     !.WeeklySummary = BuildWeeklySummary(index, weekTaskCounts, weekOrder),
                     !.Statistics.MostProductiveWeek =
                         MostProductive(index, weekTaskCounts, weekOrder, @)]
    /\ UNCHANGED <<tasks, projectTaskCounts, weekTaskCounts, tasksWithTracking, timeOthers>>

TimeNext == TimeTrackTask \/ TimeSummarize

SpecTime == TimeInit /\ [][TimeNext]_vars

\* the first linked page of a task, or "No Project"
ProjectOf(task) == IF task.PageRefs = <<>> THEN NoProject ELSE Head(task.PageRefs)

\* a map of durations holds, under each key of the counted tasks and under
\* no other key, the sum of the totals of the counted tasks of that key
HoldsTotals(map, counted, keyOf(_)) ==
    /\ DOMAIN map = {keyOf(counted[k]) : k \in 1..Len(counted)}
    /\ \A key \in DOMAIN map :
          map[key] = SumOfTotals(SelectSeq(counted, LAMBDA t : keyOf(t) = key))

\* the tasks that counts(total) holds of are the ones, and the only ones,
\* that add to the aggregates; every task adds to TotalTasks
AggregatesOf(counts(_)) ==
    LET counted == SelectSeq(tasks, LAMBDA t : counts(TotalOf(t)))
    IN  /\ timeIndex.Statistics.TotalTasks = Len(tasks)
        /\ timeIndex.TotalTimeLogged = SumOfTotals(counted)
        /\ HoldsTotals(timeIndex.ByProject, counted, ProjectOf)
        /\ HoldsTotals(timeIndex.ByPriority, counted, LAMBDA t : t.Priority)
        /\ HoldsTotals(timeIndex.ByStatus, counted, LAMBDA t : t.Status)
        /\ DOMAIN timeIndex.ByWeek =
              UNION {{FormatDate(getWeekStart(counted[k].Logbook[e].Start)) :
                         e \in 1..Len(counted[k].Logbook)} : k \in 1..Len(counted)}

\* C6 as stated: a task of zero total counts in TotalTasks only, and every
\* task of nonzero total adds its total to TotalTimeLogged, ByProject,
\* ByPriority and ByStatus.
C6_NonzeroTotalsAggregate ==
    pc \in {"time", "timeDone"} => AggregatesOf(LAMBDA total : total # 0)

\* C6 as amended: a task whose total is zero or negative counts in
\* TotalTasks only and creates no key; every task of positive total adds its
\* total to TotalTimeLogged, ByProject, ByPriority and ByStatus.
C6_PositiveTotalsAggregate ==
    pc \in {"time", "timeDone"} => AggregatesOf(LAMBDA total : total > 0)

\* a task without log entries and one whose entries sum to zero beside a
\* tracked task, after the loop
C6_Witness ==
    /\ pc = "timeDone"
    /\ \E a, b \in 1..Len(tasks) :
          /\ TotalOf(tasks[a]) = 0
          /\ TotalOf(tasks[b]) > 0
    /\ timeIndex.Statistics.TotalTasks > timeIndex.Statistics.TasksWithTracking
    /\ timeIndex.TotalTimeLogged > 0

(***************************************************************************)
(* unnamed/part_005 (BuildTaskIndex): the tasks by status, priority and    *)
(* project                                                                 *)
(***************************************************************************)

Priorities == <<"A", "B", "C", "">>

\* m[k] = append(m[k], x)
AppendAt(m, k, x) ==
    [y \in DOMAIN m \cup {k} |->
        IF y = k THEN Append(IF k \in DOMAIN m THEN m[k] ELSE <<>>, x) ELSE m[y]]

\* mutant: the loops that give every status and priority its empty list are
\* left out
NewTaskIndex_NoLists(ts, generatedAt) ==
    [GeneratedAt |-> generatedAt, TotalTasks |-> Len(ts),
     ByStatus |-> <<>>, ByPriority |-> <<>>, ByProject |-> <<>>, Recent |-> <<>>,
     Statistics |-> [CompletionRate |-> Percent(0, 1), PriorityBreakdown |-> <<>>,
                     StatusBreakdown |-> <<>>, WithTimeTracking |-> 0,
                     TotalTimeLogged |-> 0, TrackingAdoption |-> Percent(0, 1)]]

\* the index as BuildTaskIndex has it before the loop over the tasks
NewTaskIndex(ts, generatedAt) ==
    [GeneratedAt |-> generatedAt, TotalTasks |-> Len(ts),
     ByStatus |-> [st \in {taskStatuses[k] : k \in 1..Len(taskStatuses)} |-> <<>>],
     ByPriority |-> [p \in {Priorities[k] : k \in 1..Len(Priorities)} |-> <<>>],
     ByProject |-> <<>>, Recent |-> <<>>,
     Statistics |-> [CompletionRate |-> Percent(0, 1), PriorityBreakdown |-> <<>>,
                     StatusBreakdown |-> <<>>, WithTimeTracking |-> 0,
                     TotalTimeLogged |-> 0, TrackingAdoption |-> Percent(0, 1)]]

\* hasRecentActivity without the comparison with the time window
hasRecentActivity_AnyEntry(task, since) == Len(task.Logbook) > 0

hasRecentActivity(task, since) ==
    \E e \in 1..Len(task.Logbook) :
        task.Logbook[e].Start > since \/ task.Logbook[e].End > since

RECURSIVE MostRecentFrom(_, _)
MostRecentFrom(logbook, mostRecent) ==
    IF logbook = <<>> THEN mostRecent
    ELSE MostRecentFrom(Tail(logbook),
                        IF Head(logbook).End > mostRecent THEN Head(logbook).End
                        ELSE mostRecent)

getMostRecentTime(task) ==
    IF Len(task.Logbook) = 0 THEN ZeroTime
    ELSE MostRecentFrom(Tail(task.Logbook), task.Logbook[1].End)

\* one turn of the loop over the tasks
GroupTask(index, task, thirtyDaysAgo) ==
    LET grouped ==
            [index EXCEPT
                !.ByStatus = AppendAt(@, task.Status, task),
                !.Statistics.StatusBreakdown = AddAt(@, task.Status, 1),
                !.ByPriority = AppendAt(@, task.Priority, task),
                !.Statistics.PriorityBreakdown = AddAt(@, task.Priority, 1),
                !.ByProject = IF Len(task.PageRefs) > 0
                              THEN AppendAt(@, task.PageRefs[1], task) ELSE @,
                !.Recent = IF hasRecentActivity(task, thirtyDaysAgo)
                           THEN Append(@, task) ELSE @]
    IN  IF Len(task.Logbook) > 0
        THEN [grouped EXCEPT
                 !.Statistics.WithTimeTracking = @ + 1,
                 !.Statistics.TotalTimeLogged = @ + TotalDuration(task.Logbook)]
        ELSE grouped

\* Recent sorted by latest activity (a slice of at most 12 tasks), then the
\* rates
FinishTaskIndex(index, ts) ==
    LET keyed  == [k \in 1..Len(index.Recent) |->
                      [task |-> index.Recent[k], key |-> getMostRecentTime(index.Recent[k])]]
        sorted == SortDesc(keyed)
        recent == [k \in 1..Len(sorted) |-> sorted[k].task]
    IN  IF Len(ts) > 0
        THEN [index EXCEPT
                 !.Recent = recent,
                 !.Statistics.CompletionRate =
                     Percent(At(index.Statistics.StatusBreakdown, "DONE"), Len(ts)),
                 !.Statistics.TrackingAdoption =
                     Percent(index.Statistics.WithTimeTracking, Len(ts))]
        ELSE [index EXCEPT !.Recent = recent]

(***************************************************************************)
(* SpecTaskIndex: BuildTaskIndex over a task list                          *)
(***************************************************************************)

\* no task record is given twice: a line of a note yields one record
DistinctTasks(ts) == \A a, b \in 1..Len(ts) : ts[a] = ts[b] => a = b

\* the times at which the index is built
\* time.Now() of a build: 30 days back falls before every log entry, after
\* every log entry, on the start of the entries of Sun9, or inside the first
\* entry of Thu6
BuildTimes ==
    {Mon10 + 20 * SecondsPerDay, Mon10 + 34 * SecondsPerDay,
     Sun9 + 30 * SecondsPerDay, Thu6 + 3600 + 30 * SecondsPerDay}

TaskIndexInit ==
    /\ pc = "taskIndex"
    /\ tasks \in {ts \in SeqsUpTo(TimeTasks, MaxTasks) : DistinctTasks(ts)}
    /\ now \in BuildTimes
    /\ taskIndex = <<>>
    /\ scanned = 0
    /\ taskIndexOthersIdle

\* the empty index with its status and priority lists
TaskIndexCreate ==
    /\ pc = "taskIndex"
    /\ pc' = "group"
    /\ taskIndex' = NewTaskIndex(tasks, now)
    /\ UNCHANGED <<tasks, scanned, now, taskIndexOthers>>

\* one turn of the loop over the tasks
TaskIndexGroup ==
    /\ pc = "group"
    /\ scanned < Len(tasks)
    /\ taskIndex' = GroupTask(taskIndex, tasks[scanned + 1], now - 30 * SecondsPerDay)
    /\ scanned' = scanned + 1
    /\ UNCHANGED <<pc, tasks, now, taskIndexOthers>>

\* the sort of Recent and the statistics after the loop
TaskIndexFinish ==
    /\ pc = "group"
    /\ scanned = Len(tasks)
    /\ pc' = "taskIndexDone"
    /\ taskIndex' = FinishTaskIndex(taskIndex, tasks)
    /\ UNCHANGED <<tasks, scanned, now, taskIndexOthers>>

TaskIndexNext == TaskIndexCreate \/ TaskIndexGroup \/ TaskIndexFinish

SpecTaskIndex == TaskIndexInit /\ [][TaskIndexNext]_vars

PriorityBuckets == {"A", "B", "C", ""}

\* C7: ByStatus has the five statuses as keys and ByPriority the four
\* priority buckets, empty lists included; the list of a status (of a
\* priority) is the input tasks of that status (priority) in input order,
\* each once; the lengths of the ByStatus lists sum to TotalTasks, the number
\* of input tasks.
C7_EveryBucketPresentTasksInInputOrder ==
    pc = "taskIndexDone" =>
        /\ DOMAIN taskIndex.ByStatus = Statuses
        /\ DOMAIN taskIndex.ByPriority = PriorityBuckets
        /\ \A st \in Statuses :
              taskIndex.ByStatus[st] = SelectSeq(tasks, LAMBDA t : t.Status = st)
        /\ \A p \in PriorityBuckets :
              taskIndex.ByPriority[p] = SelectSeq(tasks, LAMBDA t : t.Priority = p)
        /\ SumSeq([k \in 1..Len(taskStatuses) |-> Len(taskIndex.ByStatus[taskStatuses[k]])])
              = taskIndex.TotalTasks
        /\ taskIndex.TotalTasks = Len(tasks)

\* three tasks, two of one status and priority, and a status without a task
C7_Witness ==
    /\ pc = "taskIndexDone"
    /\ Len(tasks) = 3
    /\ \E st \in Statuses : Len(taskIndex.ByStatus[st]) = 2
    /\ \E p \in PriorityBuckets : Len(taskIndex.ByPriority[p]) = 2
    /\ \E st \in Statuses : taskIndex.ByStatus[st] = <<>>
    /\ \E p \in PriorityBuckets : taskIndex.ByPriority[p] = <<>>

IsRecentTask(task) ==
    \E e \in 1..Len(task.Logbook) :
        \/ task.Logbook[e].Start > now - 30 * SecondsPerDay
        \/ task.Logbook[e].End > now - 30 * SecondsPerDay

LatestEnd(task) ==
    CHOOSE m \in {task.Logbook[e].End : e \in 1..Len(task.Logbook)} :
        \A e \in 1..Len(task.Logbook) : task.Logbook[e].End <= m

\* C17: Recent holds exactly the tasks with at least one log entry whose
\* start or end is later than 30 days before the build time, each once,
\* ordered by the latest end time of the task's log entries, most recent
\* first; a task without log entries or with older entries only is absent.
C17_RecentWithinThirtyDaysNewestFirst ==
    pc = "taskIndexDone" =>
        /\ \A k \in 1..Len(tasks) :
              contains(taskIndex.Recent, tasks[k]) <=> IsRecentTask(tasks[k])
        /\ \A k \in 1..Len(taskIndex.Recent) : contains(tasks, taskIndex.Recent[k])
        /\ NoDuplicates(taskIndex.Recent)
        /\ \A a, b \in 1..Len(taskIndex.Recent) :
              a < b => LatestEnd(taskIndex.Recent[a]) >= LatestEnd(taskIndex.Recent[b])

\* two recent tasks listed in the reverse of their input order, a task
\* whose entries are all too old and, in other runs, one without entries
C17_Witness ==
    /\ pc = "taskIndexDone"
    /\ Len(tasks) = 3
    /\ Len(taskIndex.Recent) = 2
    /\ \E k \in 1..3 : Len(tasks[k].Logbook) > 0 /\ ~contains(taskIndex.Recent, tasks[k])
    /\ \E a, b \in 1..3 :
          a < b /\ taskIndex.Recent[1] = tasks[b] /\ taskIndex.Recent[2] = tasks[a]
    /\ LatestEnd(taskIndex.Recent[1]) > LatestEnd(taskIndex.Recent[2])

(***************************************************************************)
(* SpecWeek: getWeekStart over the times of the days around two anchors    *)
(***************************************************************************)

\* 2025-11-03, a Monday
AnchorMonday == DaysFromCivil(2025, 11, 3)

\* the days around 1970-01-01 and around 2025-11-03, at the first second, at
\* 10:00:00 and at the last second
WeekTimes ==
    {d * SecondsPerDay + s :
        d \in (-WeekSpan..WeekSpan) \cup {AnchorMonday + k : k \in -WeekSpan..WeekSpan},
        s \in {0, 36000, SecondsPerDay - 1}}

WeekInit ==
    /\ pc = "week"
    /\ weekIn \in WeekTimes
    /\ weekOut = <<>>
    /\ weekOthersIdle

\* weekStart := getWeekStart(entry.Start); weekKey := weekStart.Format(...)
WeekStartOf ==
    /\ pc = "week"
    /\ pc' = "weekDone"
    /\ weekOut' = [weekStart |-> getWeekStart(weekIn),
                   weekKey   |-> FormatDate(getWeekStart(weekIn))]
    /\ UNCHANGED <<weekIn, weekOthers>>

WeekNext == WeekStartOf

SpecWeek == WeekInit /\ [][WeekNext]_vars

\* the calendar day of a time, as its number of days from 1970-01-01
DayOf(t) ==
    CHOOSE d \in (-(WeekSpan + 7)..(WeekSpan + 7))
                 \cup {AnchorMonday + k : k \in -(WeekSpan + 7)..(WeekSpan + 7)} :
        d * SecondsPerDay <= t /\ t < (d + 1) * SecondsPerDay

\* 0 for a Monday, ..., 6 for a Sunday, counted from a known Monday
DaysAfterMonday(d) == CHOOSE r \in 0..6 : (d - r - AnchorMonday + 70000) % 7 = 0

\* C12: getWeekStart(t) is midnight of the Monday on or before t's day, 6
\* days back for a Sunday and weekday-1 days back otherwise; a Monday maps to
\* its own date, and the times of one Monday-to-Sunday week get one key.
C12_WeekStartIsMondayOnOrBefore ==
    pc = "weekDone" =>
        LET day  == DayOf(weekIn)
            back == DaysAfterMonday(day)
        IN  /\ weekOut.weekStart = (day - back) * SecondsPerDay
            /\ DaysAfterMonday(DayOf(weekOut.weekStart)) = 0
            /\ day - DayOf(weekOut.weekStart) \in 0..6
            /\ back = 0 => DayOf(weekOut.weekStart) = day
            /\ \A other \in WeekTimes :
                  DayOf(other) - DaysAfterMonday(DayOf(other)) = day - back
                      => FormatDate(getWeekStart(other)) = weekOut.weekKey
            /\ \A other \in WeekTimes :
                  DayOf(other) - DaysAfterMonday(DayOf(other)) # day - back
                      => FormatDate(getWeekStart(other)) # weekOut.weekKey

\* the last second of a Sunday, six days after its week start, before 1970
C12_Witness ==
    /\ pc = "weekDone"
    /\ weekIn < 0
    /\ DaysAfterMonday(DayOf(weekIn)) = 6
    /\ weekIn - weekOut.weekStart = 7 * SecondsPerDay - 1

(***************************************************************************)
(* SpecHub: BuildReferenceGraph as one call on graphs of more than topN    *)
(* referenced pages, and on the lists of TestBuildReferenceGraph           *)
(***************************************************************************)
HubNodes == 11

NameC == <<"C">>

RECURSIVE AddRefs(_, _)
\* the second loop of BuildReferenceGraph over the whole reference list
AddRefs(nodes, rs) ==
    IF rs = <<>> THEN nodes ELSE AddRefs(AddRef(nodes, Head(rs)), Tail(rs))

HubName(k) == <<"P">> \o Itoa(k, 2)

HubRef(source, target) == [SourcePage |-> source, TargetPage |-> target]

\* indexer_test.go TestBuildReferenceGraph: A links to B and C, B to C twice
ScenarioFiles == <<PageFile("p", NameA), PageFile("p", NameB), PageFile("p", NameC)>>
ScenarioRefs ==
    <<HubRef(NameA, NameB), HubRef(NameA, NameC),
      HubRef(NameB, NameC), HubRef(NameB, NameC)>>

\* HubNodes pages: those of zero are notes nobody links to, those of high
\* are linked from two sources, the others from one
HubInput(high, zero) ==
    LET ks == [k \in 1..HubNodes |-> k]
        zs == SelectSeq(ks, LAMBDA k : k \in zero)
        ls == SelectSeq(ks, LAMBDA k : k \notin zero)
        hs == SelectSeq(ks, LAMBDA k : k \in high /\ k \notin zero)
    IN  [files |-> [k \in 1..Len(zs) |-> PageFile("p", HubName(zs[k]))],
         refs  |-> [k \in 1..Len(ls) |-> HubRef(<<"S", "1">>, HubName(ls[k]))]
                   \o [k \in 1..Len(hs) |-> HubRef(<<"S", "2">>, HubName(hs[k]))]]

HubInputs ==
    {[files |-> ScenarioFiles, refs |-> ScenarioRefs],
     [files |-> ScenarioFiles, refs |-> SubSeq(ScenarioRefs, 1, 3)]}
    \cup {HubInput(high, zero) :
            high \in {h \in SUBSET (1..HubNodes) : Cardinality(h) <= 2},
            zero \in {z \in SUBSET (1..HubNodes) : Cardinality(z) <= 1}}

Reverse(s) == [k \in 1..Len(s) |-> s[Len(s) + 1 - k]]
Rotate(s, r) == SubSeq(s, r + 1, Len(s)) \o SubSeq(s, 1, r)

\* iteration orders of the node map: all of them for a small map, the
\* rotations of the name order and of its reverse for a large one
HubOrders(S) ==
    IF Cardinality(S) <= 3 THEN AllOrders(S)
    ELSE LET names == [k \in 1..HubNodes |-> HubName(k)]
             base  == SelectSeq(names, LAMBDA n : n \in S)
         IN  {Rotate(base, r) : r \in 0..(Len(base) - 1)}
             \cup {Rotate(Reverse(base), r) : r \in 0..(Len(base) - 1)}

HubInit ==
    /\ pc = "hub"
    /\ \E input \in HubInputs : files = input.files /\ refs = input.refs
    /\ Nodes = <<>> /\ HubPages = <<>>
    /\ MissingPages = <<>> /\ Threshold = 0
    /\ graphOthersIdle

\* BuildReferenceGraph: both loops
HubBuildNodes ==
    /\ pc = "hub"
    /\ Nodes' = AddRefs(SeedNodes(files, <<>>), refs)
    /\ pc' = "hubNodes"
    /\ UNCHANGED <<files, refs, HubPages, MissingPages, Threshold, graphOthers>>

\* BuildReferenceGraph: graph.HubPages = findHubPages(graph.Nodes, 10)
HubFindHubPages ==
    /\ pc = "hubNodes"
    /\ \E order \in HubOrders(DOMAIN Nodes) :
          HubPages' = findHubPages(Nodes, order, topN)
    /\ pc' = "hubDone"
    /\ UNCHANGED <<files, refs, Nodes, MissingPages, Threshold, graphOthers>>

HubNext == HubBuildNodes \/ HubFindHubPages

SpecHub == HubInit /\ [][HubNext]_vars

\* C13: HubPages holds at most 10 page names, by ReferenceCount
\* non-increasing, and no node left out of it has a higher ReferenceCount
\* than a node in it; with A linking to B and C and B linking to C twice the
\* graph has 3 nodes, C has inbound count 2 and C is first in HubPages.
C13_HubPagesTopTenRanked ==
    pc = "hubDone" =>
        /\ Len(HubPages) <= 10
        /\ NoDuplicates(HubPages)
        /\ \A k \in 1..Len(HubPages) : HubPages[k] \in DOMAIN Nodes
        /\ \A a, b \in 1..Len(HubPages) :
              a < b => Nodes[HubPages[a]].ReferenceCount
                          >= Nodes[HubPages[b]].ReferenceCount
        /\ \A n \in DOMAIN Nodes, k \in 1..Len(HubPages) :
              ~contains(HubPages, n)
                  => Nodes[n].ReferenceCount <= Nodes[HubPages[k]].ReferenceCount
        /\ (files = ScenarioFiles /\ refs = ScenarioRefs) =>
              /\ Cardinality(DOMAIN Nodes) = 3
              /\ Len(Nodes[NameC].InboundRefs) = 2
              /\ Nodes[NameC].ReferenceCount = 2
              /\ HubPages[1] = NameC

\* eleven referenced pages, two of them referenced twice: one page with a
\* positive count is cut off and the two lead the list
C13_Witness ==
    /\ pc = "hubDone"
    /\ Len(HubPages) = 10
    /\ Cardinality({n \in DOMAIN Nodes : Nodes[n].ReferenceCount > 0}) > 10
    /\ Nodes[HubPages[2]].ReferenceCount = 2
    /\ Nodes[HubPages[3]].ReferenceCount = 1

\* C18: building the indexes twice from the same NoteFile and LinkRecord
\* lists gives the same HubPages, members and order: whatever order the
\* second build walks the node map in, its list equals the first one.
C18_SameInputSameHubPages ==
    pc = "hubDone" =>
        \A order \in HubOrders(DOMAIN Nodes) :
            findHubPages(Nodes, order, topN) = HubPages

\* what does hold of two builds: the same ReferenceCounts in the same places
HubPagesSameCounts ==
    pc = "hubDone" =>
        \A order \in HubOrders(DOMAIN Nodes) :
            LET again == findHubPages(Nodes, order, topN)
            IN  /\ Len(again) = Len(HubPages)
                /\ \A k \in 1..Len(again) :
                      Nodes[again[k]].ReferenceCount = Nodes[HubPages[k]].ReferenceCount

(***************************************************************************)
(* internal/parser/references.go                                           *)
(***************************************************************************)
\* extractPageNameFromPath of package parser
parserExtractPageNameFromPath(filePath) ==
    TrimSuffix(filepathBase(filePath), <<".", "m", "d">>)

ExtractContext(line, maxLen) ==
    LET t == TrimSpace(line)
    IN  IF Len(t) <= maxLen THEN t ELSE SubSeq(t, 1, maxLen) \o <<".", ".", ".">>

\* the inner loop of ParseReferences: the records of the 0-based line k
RefsOfLine(ls, k, filePath) ==
    LET pageRefs == ExtractPageReferences(ls[k + 1])
    IN  [n \in 1..Len(pageRefs) |->
            [SourceFile |-> filePath,
             SourcePage |-> parserExtractPageNameFromPath(filePath),
             TargetPage |-> pageRefs[n],
             LineNumber |-> k + 1,
             Context    |-> ExtractContext(ls[k + 1], 100)]]

RECURSIVE ParseReferencesFrom(_, _, _)
ParseReferencesFrom(ls, k, filePath) ==
    IF k >= Len(ls) THEN <<>>
    ELSE RefsOfLine(ls, k, filePath) \o ParseReferencesFrom(ls, k + 1, filePath)

RECURSIVE DistinctTargets(_, _)
DistinctTargets(rs, seen) ==
    IF rs = <<>> THEN <<>>
    ELSE IF Head(rs).TargetPage \in seen THEN DistinctTargets(Tail(rs), seen)
    ELSE <<Head(rs)>> \o DistinctTargets(Tail(rs), seen \cup {Head(rs).TargetPage})

\* ParseReferences keeping one record per distinct target
ParseReferences_DistinctTargets(ls, filePath) ==
    DistinctTargets(ParseReferencesFrom(ls, 0, filePath), {})

\* ParseReferences on the lines of the content
ParseReferences(ls, filePath) == ParseReferencesFrom(ls, 0, filePath)

(***************************************************************************)
(* SpecRefs: ParseReferences on the lines of one note                      *)
(***************************************************************************)
RefFrags ==
    { <<"[", "[", "B", "]", "]">>, <<"[", "[", "X", " ", "y", "]", "]">>,
      <<"[", "[">>, <<"]", "]">>, <<" ", "x">> }

\* a line built from fragments, alone, before a line of a few kinds, or
\* between two lines that link to B
RefLinesFirst == {Concat(fs) : fs \in SeqsUpTo(RefFrags, MaxRefs)}
RefLinesMore ==
    { <<"-", " ", "x">>, <<"[", "[", "B", "]", "]">>,
      <<"[", "[", "B", "]", "]", "[", "[", "B", "]", "]">> }

RefNotes ==
    {<<l>> : l \in RefLinesFirst}
    \cup {<<l, m>> : l \in RefLinesFirst, m \in RefLinesMore}
    \cup {<<<<"[", "[", "B", "]", "]", "[", "[", "B", "]", "]">>, l, <<"[", "[", "B", "]", "]">>>> :
            l \in RefLinesFirst}

RefsInit ==
    /\ pc = "references"
    /\ lines \in RefNotes
    /\ files \in {<<PageFile("p", NameA)>>, <<PageFile("j", NameB)>>}
    /\ refs = <<>>
    /\ refsOthersIdle

RefsParse ==
    /\ pc = "references"
    /\ refs' = ParseReferences(lines, files[1].Path)
    /\ pc' = "referencesDone"
    /\ UNCHANGED <<lines, files, refsOthers>>

RefsNext == RefsParse

SpecRefs == RefsInit /\ [][RefsNext]_vars

\* the spans [[...]] of a line: "[[" at k, then one or more characters other
\* than "]", then "]]" at e
LinkSpans(s) ==
    {sp \in (1..Len(s)) \X (1..Len(s)) :
        /\ MatchAt(s, <<"[", "[">>, sp[1])
        /\ sp[2] >= sp[1] + 3
        /\ \A m \in (sp[1] + 2)..(sp[2] - 1) : s[m] # "]"
        /\ MatchAt(s, <<"]", "]">>, sp[2])}

\* the occurrences: the spans that do not start inside an earlier occurrence
Occurrences(s) ==
    CHOOSE C \in SUBSET LinkSpans(s) :
        \A sp \in LinkSpans(s) :
            sp \in C <=> ~\E c \in C : c[1] < sp[1] /\ sp[1] <= c[2] + 1

AllOccurrences ==
    UNION {{<<j, sp[1], sp[2]>> : sp \in Occurrences(lines[j])} : j \in 1..Len(lines)}

OccurrenceRank(o) ==
    Cardinality({p \in AllOccurrences :
                    p[1] < o[1] \/ (p[1] = o[1] /\ p[2] <= o[2])})

\* C16: ParseReferences yields one LinkRecord per [[...]] occurrence, in
\* line order and left to right within a line, each with the 1-indexed line
\* number of its occurrence, the text between the brackets as target and the
\* page name of the note as source; a repeated target yields one record per
\* occurrence.
C16_OneLinkRecordPerOccurrence ==
    pc = "referencesDone" =>
        /\ Len(refs) = Cardinality(AllOccurrences)
        /\ \A o \in AllOccurrences :
              LET ref == refs[OccurrenceRank(o)]
              IN  /\ ref.LineNumber = o[1]
                  /\ ref.TargetPage = SubSeq(lines[o[1]], o[2] + 2, o[3] - 1)
                  /\ ref.SourceFile = files[1].Path
                  /\ \E dir \in {"p", "j"} :
                        files[1] = PageFile(dir, ref.SourcePage)

\* the target B twice on the first line and once on each of two other lines
C16_Witness ==
    /\ pc = "referencesDone"
    /\ Len(lines) = 3
    /\ Len(refs) = 4
    /\ \A n \in 1..4 : refs[n].TargetPage = NameB
    /\ refs[1].LineNumber = 1 /\ refs[2].LineNumber = 1

(***************************************************************************)
(* cmd/logseq-claude-indexer/main.go: runGenerate                          *)
(***************************************************************************)
\* the element of a set of one element
TheOne(S) == CHOOSE x \in S : TRUE

\* one turn of the loop of ParseTasks at the 0-based line k: the records it
\* appends and the lines its log block takes
ParseTasksTurn(ls, k) ==
    IF ~isTaskLine(ls[k + 1]) \/ ~extractTaskStatus(ls[k + 1]).found
    THEN [found |-> <<>>, consumed |-> 0]
    ELSE TheOne({[found |-> <<at.task>>, consumed |-> at.consumed] :
                    at \in {TaskAt(ls, k)}})

RECURSIVE ParseTasksFrom(_, _)
\* the loop of ParseTasks from the 0-based line k on
ParseTasksFrom(ls, k) ==
    IF k >= Len(ls) THEN <<>>
    ELSE TheOne({turn.found \o ParseTasksFrom(ls, k + turn.consumed + 1) :
                    turn \in {ParseTasksTurn(ls, k)}})

\* ParseTasks(content, filePath): the records carry the path given
ParseTasks(ls, filePath) ==
    TheOne({[n \in 1..Len(found) |-> [found[n] EXCEPT !.SourceFile = filePath]] :
               found \in {ParseTasksFrom(ls, 0)}})

RECURSIVE GroupTasks(_, _, _)
\* the loop of BuildTaskIndex
GroupTasks(index, ts, thirtyDaysAgo) ==
    IF ts = <<>> THEN index
    ELSE GroupTasks(GroupTask(index, Head(ts), thirtyDaysAgo), Tail(ts), thirtyDaysAgo)

BuildTaskIndex(ts, generatedAt) ==
    FinishTaskIndex(
        GroupTasks(NewTaskIndex(ts, generatedAt), ts, generatedAt - 30 * SecondsPerDay),
        ts)

RECURSIVE AddTasksToDays(_, _)
\* the second loop of BuildTimelineIndex
AddTasksToDays(days, ts) ==
    IF ts = <<>> THEN days ELSE AddTasksToDays(AddTaskToDay(days, Head(ts)), Tail(ts))

\* the day map of BuildTimelineIndex after its first three loops
TimelineDays(ts, fs) ==
    LET days == AddTasksToDays(SeedDays(fs, <<>>), ts)
    IN  [k \in DOMAIN days |->
            [days[k] EXCEPT !.KeyActivity = generateKeyActivity(days[k])]]

\* os.ReadFile of a note: its lines, or an error
Unreadable == [ok |-> FALSE, content |-> <<>>]
Readable(content) == [ok |-> TRUE, content |-> content]

\* the body of the loop over the files, with the read error left uncounted
\* and the note parsed as an empty one
ReadNote_Uncounted(acc, file, read) ==
    [allTasks    |-> acc.allTasks \o ParseTasks(read.content, file.Path),
     allRefs     |-> acc.allRefs \o ParseReferences(read.content, file.Path),
     parseErrors |-> acc.parseErrors]

\* the body of the loop over the files of runGenerate
ReadNote(acc, file, read) ==
    IF ~read.ok
    THEN [acc EXCEPT !.parseErrors = @ + 1]
    ELSE [allTasks    |-> acc.allTasks \o ParseTasks(read.content, file.Path),
          allRefs     |-> acc.allRefs \o ParseReferences(read.content, file.Path),
          parseErrors |-> acc.parseErrors]

\* the reports in the order runGenerate writes them
ReportFiles ==
    <<"tasks-by-status.md", "tasks-by-priority.md", "timeline-recent.md",
      "timeline-full.md", "missing-pages.md", "reference-graph.md">>

(***************************************************************************)
(* SpecRun: one run of runGenerate over a scanned repository               *)
(***************************************************************************)
RunContents ==
    { <<<<"-", " ", "N", "O", "W", " ", "x", " ", "[", "[", "B", "]", "]">>>>,
      <<<<"x", " ", "[", "[", "B", "]", "]", " ", "[", "[", "X", "]", "]">>>>,
      << <<"-", " ", "D", "O", "N", "E", " ", "y">>,
         <<" ", " ">> \o LogbookOpen,
         ClockSample("t10", <<"0", "2", ":", "0", "0", ":", "0", "0">>),
         <<" ", " ">> \o LogbookClose >> }

RunFileLists ==
    { <<>>,
      <<JournalOf(Nov6)>>,
      <<JournalOf(Nov6), PageOf(NameA)>>,
      <<JournalOf(Nov5), JournalOf(Nov6), PageOf(NameB)>> }

RunInit ==
    /\ pc = "run"
    /\ files \in RunFileLists
    /\ disk \in [1..Len(files) -> {Unreadable} \cup {Readable(c) : c \in RunContents}]
    /\ dryRun \in BOOLEAN
    /\ now = Mon10 + 20 * SecondsPerDay
    /\ fileAt = 0 /\ parseErrors = 0 /\ reports = <<>>
    /\ tasks = <<>> /\ refs = <<>>
    /\ taskIndex = <<>>
    /\ Nodes = <<>> /\ HubPages = <<>> /\ MissingPages = <<>> /\ Threshold = 0
    /\ TimelineIdle
    /\ runOthersIdle

\* no markdown files found: return nil
RunNoFiles ==
    /\ pc = "run"
    /\ Len(files) = 0
    /\ pc' = "runEmpty"
    /\ UNCHANGED <<files, tasks, refs, taskIndex, now, graphVars, timelineVars,
                   runVars, runOthers>>

\* one turn of the loop over the files
RunReadFile ==
    /\ pc = "run"
    /\ fileAt < Len(files)
    /\ \E acc \in {ReadNote([allTasks |-> tasks, allRefs |-> refs,
                              parseErrors |-> parseErrors],
                             files[fileAt + 1], disk[fileAt + 1])} :
          /\ tasks' = acc.allTasks
          /\ refs' = acc.allRefs
          /\ parseErrors' = acc.parseErrors
    /\ fileAt' = fileAt + 1
    /\ UNCHANGED <<pc, files, taskIndex, now, Nodes, HubPages, MissingPages,
                   Threshold, timelineVars, disk, dryRun, reports, runOthers>>

\* step 3: the four indexes runGenerate builds; a dry run returns after them
RunBuildIndexes ==
    /\ pc = "run"
    /\ Len(files) > 0
    /\ fileAt = Len(files)
    /\ taskIndex' = BuildTaskIndex(tasks, now)
    /\ Nodes' = AddRefs(SeedNodes(files, <<>>), refs)
    /\ HubPages' \in {findHubPages(Nodes', order, topN) :
                          order \in AllOrders(DOMAIN Nodes')}
    /\ dayMap' = TimelineDays(tasks, files)
    /\ Entries' \in {SortedEntries(dayMap', order) : order \in AllOrders(DOMAIN dayMap')}
    /\ MissingPages' \in {BuildMissingPagesIndex(Nodes', order, 5) :
                              order \in AllOrders(DOMAIN Nodes')}
    /\ Threshold' = 5
    /\ pc' = IF dryRun THEN "runDone" ELSE "runBuilt"
    /\ UNCHANGED <<files, tasks, refs, now, runVars, runOthers>>

\* step 4: the reports are written in order; the first write that fails
\* ends the run with its error
RunWriteReports ==
    /\ pc = "runBuilt"
    /\ \E written \in 0..Len(ReportFiles) :
          /\ reports' = SubSeq(ReportFiles, 1, written)
          /\ pc' = IF written = Len(ReportFiles) THEN "runDone" ELSE "runFailed"
    /\ UNCHANGED <<files, tasks, refs, taskIndex, now, graphVars, timelineVars,
                   disk, fileAt, parseErrors, dryRun, runOthers>>

RunNext == RunNoFiles \/ RunReadFile \/ RunBuildIndexes \/ RunWriteReports

SpecRun == RunInit /\ [][RunNext]_vars

RunPastLoop == pc \in {"runBuilt", "runDone", "runFailed"}

FromNote(records, k) == SelectSeq(records, LAMBDA r : r.SourceFile = files[k].Path)

\* C14: a note that cannot be read adds one to the parse-error counter and
\* gives no TaskRecord and no LinkRecord; the run goes on through every
\* other note, whose records are all kept, and the indexes are built from
\* the records of the readable notes.
C14_ReadFailureCountedAndSkipped ==
    /\ pc \in {"run", "runBuilt", "runDone", "runFailed"} =>
          /\ parseErrors = Cardinality({k \in 1..fileAt : ~disk[k].ok})
          /\ \A k \in 1..fileAt :
                IF disk[k].ok
                THEN /\ FromNote(tasks, k) = ParseTasks(disk[k].content, files[k].Path)
                     /\ FromNote(refs, k) = ParseReferences(disk[k].content, files[k].Path)
                ELSE FromNote(tasks, k) = <<>> /\ FromNote(refs, k) = <<>>
    /\ RunPastLoop =>
          /\ fileAt = Len(files)
          /\ taskIndex = BuildTaskIndex(tasks, now)
          /\ taskIndex.TotalTasks = Len(tasks)
          /\ Nodes = AddRefs(SeedNodes(files, <<>>), refs)
          /\ \A n \in 1..Len(refs) : refs[n].TargetPage \in DOMAIN Nodes
          /\ dayMap = TimelineDays(tasks, files)
          /\ Threshold = 5

\* the second of three notes cannot be read: the run completes with one
\* error counted and with the records of the first and the third note
C14_Witness ==
    /\ pc = "runDone"
    /\ ~dryRun
    /\ Len(files) = 3
    /\ disk[1].ok /\ ~disk[2].ok /\ disk[3].ok
    /\ parseErrors = 1
    /\ FromNote(tasks, 1) # <<>>
    /\ FromNote(refs, 3) # <<>>
    /\ taskIndex.TotalTasks = Len(tasks)
    /\ Len(reports) = Len(ReportFiles)

\* C15: a full run (not a dry run) over a repository with at least one note
\* has built the task index, the link graph, the timeline, the time-tracking
\* index and the missing-pages index, and has rendered a report from each,
\* when it reports completion.
C15_AllFiveIndexesBuiltAndRendered ==
    (pc = "runDone" /\ ~dryRun /\ Len(files) > 0) =>
        /\ DOMAIN taskIndex # {}
        /\ contains(reports, "tasks-by-status.md")
        /\ DOMAIN Nodes # {}
        /\ contains(reports, "reference-graph.md")
        /\ DOMAIN dayMap # {}
        /\ contains(reports, "timeline-full.md")
        /\ Threshold = 5
        /\ contains(reports, "missing-pages.md")
        /\ DOMAIN timeIndex # {}
        /\ contains(reports, "time-tracking.md")

\* what runGenerate does: four indexes and six reports, no time tracking
RunBuildsFourIndexes ==
    (pc = "runDone" /\ ~dryRun /\ Len(files) > 0) =>
        /\ DOMAIN taskIndex # {} /\ DOMAIN Nodes # {} /\ Threshold = 5
        /\ reports = ReportFiles
        /\ timeIndex = <<>>

(***************************************************************************)
(* SpecClassify: classifyPageType over page names made of words            *)
(***************************************************************************)
MaxWords == 5

\* a capitalised word, a lower-case word, a capitalised date keyword
ClassifyWords == { <<"A", "l">>, <<"c", "y">>, <<"M", "a", "y">> }

RECURSIVE JoinWords(_)
JoinWords(ws) ==
    IF ws = <<>> THEN <<>>
    ELSE IF Len(ws) = 1 THEN ws[1]
    ELSE ws[1] \o <<" ">> \o JoinWords(Tail(ws))

\* what may follow the words: nothing, a role after " - ", a hyphen that is
\* not the pattern, two patterns
ClassifyTails ==
    { <<>>,
      <<" ", "-", " ", "c", "y">>,
      <<" ", "-", " ", "A", "P", "I">>,
      <<" ", "-", " ">>,
      <<" ", "-", "c", "y">>,
      <<"-", " ", "c", "y">>,
      <<" ", "-", " ", "M", "a", "y", " ", "-", " ", "c", "y">>,
      <<" ", "-", " ", "-", " ", "c", "y">> }

\* the words again, with a project keyword and a technical keyword
KeywordWords ==
    ClassifyWords \cup { <<"S", "p", "r", "i", "n", "t">>, <<"A", "P", "I">> }

ClassifyNames ==
    {JoinWords(ws) \o tail : ws \in SeqsUpTo(ClassifyWords, MaxWords), tail \in ClassifyTails}
    \cup {JoinWords(ws) : ws \in SeqsUpTo(KeywordWords, MaxWords - 1)}

ClassifyInit ==
    /\ pc = "classify"
    /\ classifyIn \in ClassifyNames
    /\ classifyOut = <<>>
    /\ classifyOthersIdle

ClassifyApply ==
    /\ pc = "classify"
    /\ classifyOut' = classifyPageType(classifyIn)
    /\ pc' = "classifyDone"
    /\ UNCHANGED <<classifyIn, classifyOthers>>

ClassifyNext == ClassifyApply

SpecClassify == ClassifyInit /\ [][ClassifyNext]_vars

Separator == <<" ", "-", " ">>

\* the part of the name before its first " - "
BeforeSeparator(name) == SubSeq(name, 1, Index(name, Separator))
AfterSeparator(name) == SliceFrom(name, Index(name, Separator) + Len(Separator))

WordStarts(s) == {k \in 1..Len(s) : ~IsSpace(s[k]) /\ (k = 1 \/ IsSpace(s[k - 1]))}

\* 2 to 4 words, each starting with a capital letter
CapitalisedName(s) ==
    /\ Cardinality(WordStarts(s)) \in 2..4
    /\ \A k \in WordStarts(s) : IsUpper(s[k])

\* C19 as stated: a name that contains " - " is a "person" when the part
\* before it is 2 to 4 words each starting with a capital letter, and a
\* "concept" otherwise.
C19_SeparatorNamePersonElseConcept ==
    (pc = "classifyDone" /\ Contains(classifyIn, Separator)) =>
        classifyOut = IF CapitalisedName(BeforeSeparator(classifyIn))
                      THEN "person" ELSE "concept"

\* C19: a name that contains " - " is a "person" when splitting it at
\* " - " gives exactly two parts and the first part is 2 to 4 words each
\* starting with a capital letter, and a "concept" otherwise; the date,
\* project and technical keywords play no part for such a name.
C19_OneSeparatorNamePersonElseConcept ==
    (pc = "classifyDone" /\ Contains(classifyIn, Separator)) =>
        classifyOut = IF /\ CapitalisedName(BeforeSeparator(classifyIn))
                         /\ ~Contains(AfterSeparator(classifyIn), Separator)
                      THEN "person" ELSE "concept"

\* "May Al - API": a person, though it holds a date and a technical keyword
C19_Witness ==
    /\ pc = "classifyDone"
    /\ classifyIn = <<"M", "a", "y", " ", "A", "l", " ", "-", " ", "A", "P", "I">>
    /\ classifyOut = "person"

\* the name holds one of the keywords somewhere
HoldsKeyword(name, keywords) ==
    \E k \in 1..Len(keywords), p \in 1..Len(name) : MatchAt(name, keywords[k], p)

\* 2 or 3 words, each starting with a capital letter
TwoOrThreeCapitalised(s) ==
    /\ Cardinality(WordStarts(s)) \in 2..3
    /\ \A k \in WordStarts(s) : IsUpper(s[k])

\* C21: a name without " - " gets the label of the first rule that matches,
\* in the order date tokens, project keywords, technical keywords, 2-3
\* capitalised words, default "concept": a date token wins over a project or
\* technical keyword, a project keyword over a technical one, a technical
\* keyword over the shape of a name.
C21_FirstMatchingRuleWins ==
    (pc = "classifyDone" /\ ~Contains(classifyIn, Separator)) =>
        classifyOut =
            CASE HoldsKeyword(classifyIn, dateKeywords) -> "date"
              [] ~HoldsKeyword(classifyIn, dateKeywords)
                 /\ HoldsKeyword(classifyIn, projectKeywords) -> "project"
              [] ~HoldsKeyword(classifyIn, dateKeywords)
                 /\ ~HoldsKeyword(classifyIn, projectKeywords)
                 /\ HoldsKeyword(classifyIn, techKeywords) -> "concept"
              [] OTHER -> IF TwoOrThreeCapitalised(classifyIn)
                          THEN "person" ELSE "concept"

\* "Al API": two capitalised words, yet a concept for its technical keyword
C21_Witness ==
    /\ pc = "classifyDone"
    /\ classifyIn = <<"A", "l", " ", "A", "P", "I">>
    /\ TwoOrThreeCapitalised(classifyIn)
    /\ classifyOut = "concept"

(***************************************************************************)
(* SpecLogbook: ParseTasks on a note of one task line, its log block, and  *)
(* perhaps a close marker and a later task line                            *)
(***************************************************************************)
ClockFromTo(a, b, d) ==
    <<" ", " ", "C", "L", "O", "C", "K", ":", " ", "[", a, "]", "-", "-", "[",
      b, "]", " ", "=", ">", " ", " ">> \o d

GoodClockA == ClockFromTo("t10", "t12", <<"0", "2", ":", "0", "0", ":", "0", "0">>)
GoodClockB == ClockFromTo("t12", "t33", <<"2", "1", ":", "0", "0", ":", "0", "0">>)
BadStartClock == ClockFromTo("bad", "t12", <<"0", "1", ":", "0", "0", ":", "0", "0">>)
BadEndClock == ClockFromTo("t10", "bad", <<"0", "1", ":", "0", "0", ":", "0", "0">>)
PlainText == <<" ", " ", "x">>

BlockLines == {GoodClockA, GoodClockB, BadStartClock, BadEndClock, PlainText}

OwnerLine == <<"-", " ", "N", "O", "W", " ", "x">>
LaterLine == <<"-", " ", "T", "O", "D", "O", " ", "x">>

LogbookNotes ==
    {<<OwnerLine, <<" ", " ">> \o LogbookOpen>> \o block \o close \o later :
        block \in SeqsUpTo(BlockLines, MaxLines),
        close \in {<<>>, <<<<" ", " ">> \o LogbookClose>>},
        later \in {<<>>, <<LaterLine>>}}

LogbookInit ==
    /\ pc = "parse"
    /\ lines \in LogbookNotes
    /\ i = 0
    /\ tasks = <<>>
    /\ parseOthersIdle

SpecLogbook == LogbookInit /\ [][ParseNext]_vars

\* the entry a line of the block stands for
EntryOfBlockLine(line) ==
    IF line = GoodClockA
    THEN <<[Start |-> 36000, End |-> 43200, Duration |-> 7200]>>
    ELSE IF line = GoodClockB
    THEN <<[Start |-> 43200, End |-> 118800, Duration |-> 75600]>>
    ELSE <<>>

RECURSIVE EntriesOfBlock(_)
EntriesOfBlock(block) ==
    IF block = <<>> THEN <<>>
    ELSE EntryOfBlockLine(Head(block)) \o EntriesOfBlock(Tail(block))

HasCloseMarker == \E k \in 3..Len(lines) : Contains(lines[k], LogbookClose)

\* the lines of the block between the open marker and the close marker, or
\* the end of the note
BlockBody ==
    SelectSeq(SubSeq(lines, 3, BlockEnd(2)), LAMBDA l : l \in BlockLines)

\* C22: in a log block a clock line whose start or end timestamp does not
\* parse gives no TimeLogEntry; every other clock line of the block gives
\* its entry, in line order; a line that is no clock line is ignored; the
\* TaskRecord of the task line is produced all the same.
C22_BadClockLineDroppedOthersKept ==
    pc = "parsed" =>
        /\ Len(tasks) >= 1
        /\ tasks[1].LineNumber = 1
        /\ tasks[1].Logbook = EntriesOfBlock(BlockBody)

\* a good clock line, one with a bad start, plain text, one with a bad end,
\* then another good one: two entries, in line order
C22_Witness ==
    /\ pc = "parsed"
    /\ HasCloseMarker
    /\ \E a, b, c \in 3..Len(lines) :
          /\ a < b /\ b < c /\ c < BlockEnd(2)
          /\ lines[a] = GoodClockA
          /\ lines[b] \in {BadStartClock, BadEndClock}
          /\ lines[c] = GoodClockB
    /\ Len(tasks[1].Logbook) = 2
    /\ tasks[1].Logbook[1].Duration = 7200
    /\ tasks[1].Logbook[2].Duration = 75600

\* C27: when the log block opened right after a task line has no close
\* marker before the end of the note, ParseLogbook consumes every remaining
\* line: no later line gives a TaskRecord, not even a bullet line with a
\* status token, and the task owning the block is emitted with the entries
\* parsed up to the end of the note.
C27_UnclosedBlockSwallowsRestOfNote ==
    (pc = "parsed" /\ ~HasCloseMarker) =>
        /\ ParseLogbook(lines, 1).consumed = Len(lines) - 1
        /\ Len(tasks) = 1
        /\ tasks[1].LineNumber = 1
        /\ tasks[1].Logbook = EntriesOfBlock(BlockBody)

\* an unclosed block with a good clock line, then a bullet line with TODO
C27_Witness ==
    /\ pc = "parsed"
    /\ ~HasCloseMarker
    /\ lines[Len(lines)] = LaterLine
    /\ isTaskLine(lines[Len(lines)]) /\ extractTaskStatus(lines[Len(lines)]).found
    /\ Len(tasks) = 1
    /\ Len(tasks[1].Logbook) = 1

(***************************************************************************)
(* the weekly figures of BuildTimeTrackingIndex                            *)
(***************************************************************************)

\* the week key of a log entry
WeekKeyOf(entry) == FormatDate(getWeekStart(entry.Start))

\* the week keys of the log entries of the counted tasks, in input order
RECURSIVE WeekKeysOf(_)
WeekKeysOf(ts) ==
    IF ts = <<>> THEN <<>>
    ELSE (IF TotalOf(Head(ts)) > 0
          THEN [e \in 1..Len(Head(ts).Logbook) |-> WeekKeyOf(Head(ts).Logbook[e])]
          ELSE <<>>) \o WeekKeysOf(Tail(ts))

\* the key of S that comes first in keys
FirstSeen(keys, S) ==
    keys[CHOOSE k \in 1..Len(keys) :
            keys[k] \in S /\ \A j \in 1..(k - 1) : keys[j] \notin S]

\* the weeks of ByWeek whose logged time no other week exceeds
BestWeeks == {w \in DOMAIN timeIndex.ByWeek :
                 \A v \in DOMAIN timeIndex.ByWeek : timeIndex.ByWeek[v] <= timeIndex.ByWeek[w]}

\* C23: Statistics.MostProductiveWeek is a week whose logged time is the
\* maximum over the ByWeek entries; when several weeks share the maximum it is
\* the one seen first in the input; with no tracked time it keeps the zero
\* value.
C23_MostProductiveWeekFirstSeenMaximum ==
    pc = "timeDone" =>
        LET best == timeIndex.Statistics.MostProductiveWeek
        IN  IF timeIndex.TotalTimeLogged = 0
            THEN best = NewTimeTrackingIndex.Statistics.MostProductiveWeek
            ELSE /\ \E w \in BestWeeks : best.TimeLogged = timeIndex.ByWeek[w]
                 /\ best.WeekStart =
                        ParseDate("-", FirstSeen(WeekKeysOf(tasks), BestWeeks)).t

\* what holds of every build: the week is one of the weeks of maximal logged
\* time, or the zero value when nothing was tracked
MostProductiveWeekIsSomeMaximum ==
    pc = "timeDone" =>
        LET best == timeIndex.Statistics.MostProductiveWeek
        IN  IF timeIndex.TotalTimeLogged = 0
            THEN best = NewTimeTrackingIndex.Statistics.MostProductiveWeek
            ELSE \E w \in BestWeeks :
                    best = WeeklyOf(timeIndex, weekTaskCounts, w)

\* two weeks tie at the maximum and the later-seen one was chosen
C23_TieTakesLaterSeenWeek ==
    /\ pc = "timeDone"
    /\ Cardinality(BestWeeks) = 2
    /\ timeIndex.Statistics.MostProductiveWeek.WeekStart #
           ParseDate("-", FirstSeen(WeekKeysOf(tasks), BestWeeks)).t

(***************************************************************************)
(* the two lists of an edge of the reference graph                         *)
(***************************************************************************)

\* C25: in the graph BuildReferenceGraph returns, for all node names s and
\* t, t is in the OutboundRefs of s exactly when s is in the InboundRefs of
\* t, whatever the order of the LinkRecords and whether or not s has a note
\* file.
C25_OutboundIffInbound ==
    pc = "built" =>
        \A s, t \in DOMAIN Nodes :
            contains(Nodes[s].OutboundRefs, t) <=> contains(Nodes[t].InboundRefs, s)

\* what holds of every graph: an outbound entry always has its inbound entry,
\* and the two lists agree for every source that has a note file
OutboundHasInbound ==
    pc = "built" =>
        \A s, t \in DOMAIN Nodes :
            /\ contains(Nodes[s].OutboundRefs, t) => contains(Nodes[t].InboundRefs, s)
            /\ Nodes[s].FilePath # <<>> =>
                  (contains(Nodes[t].InboundRefs, s) => contains(Nodes[s].OutboundRefs, t))

\* a node without a note file that stands in the InboundRefs of its target
\* and has no OutboundRefs: its link was read before a link to it created it
C25_InboundWithoutOutbound ==
    /\ pc = "built"
    /\ \E s, t \in DOMAIN Nodes :
          /\ Nodes[s].FilePath = <<>>
          /\ contains(Nodes[t].InboundRefs, s)
          /\ Nodes[s].OutboundRefs = <<>>

\* the sum of the values of a map
RECURSIVE SumValues(_)
SumValues(m) ==
    IF DOMAIN m = {} THEN 0
    ELSE LET key == CHOOSE k \in DOMAIN m : TRUE
         IN  m[key] + SumValues([k \in DOMAIN m \ {key} |-> m[k]])

\* C26: in the result of BuildTimeTrackingIndex the values of ByProject, of
\* ByPriority, of ByStatus and of ByWeek each sum to TotalTimeLogged, and
\* TasksWithTracking + TasksWithoutTracking = TotalTasks.
C26_AggregatesSumToTotal ==
    pc = "timeDone" =>
        /\ SumValues(timeIndex.ByProject) = timeIndex.TotalTimeLogged
        /\ SumValues(timeIndex.ByPriority) = timeIndex.TotalTimeLogged
        /\ SumValues(timeIndex.ByStatus) = timeIndex.TotalTimeLogged
        /\ SumValues(timeIndex.ByWeek) = timeIndex.TotalTimeLogged
        /\ timeIndex.Statistics.TasksWithTracking
              + timeIndex.Statistics.TasksWithoutTracking
           = timeIndex.Statistics.TotalTasks

\* a build with an untracked task, two weeks, two projects, two priorities
\* of which one is the empty priority, and two statuses
C26_Witness ==
    /\ pc = "timeDone"
    /\ timeIndex.Statistics.TasksWithoutTracking > 0
    /\ timeIndex.Statistics.TasksWithTracking = 2
    /\ Cardinality(DOMAIN timeIndex.ByWeek) = 2
    /\ Cardinality(DOMAIN timeIndex.ByProject) = 2
    /\ Cardinality(DOMAIN timeIndex.ByStatus) = 2
    /\ DOMAIN timeIndex.ByPriority = {"", "A"}
    /\ timeIndex.TotalTimeLogged = 10800

\* the tasks, by their place in the list, with a log entry starting in the
\* week of the given key
TasksOfWeek(weekKey) ==
    {k \in 1..Len(tasks) :
        \E e \in 1..Len(tasks[k].Logbook) : WeekKeyOf(tasks[k].Logbook[e]) = weekKey}

\* WeeklySummary has one row per week of ByWeek, with the logged time of
\* ByWeek, the most recent week first
WeeklyRowsNewestFirst ==
    LET rows == timeIndex.WeeklySummary
    IN  /\ Len(rows) = Cardinality(DOMAIN timeIndex.ByWeek)
        /\ \A k \in 1..Len(rows) :
              /\ FormatDate(rows[k].WeekStart) \in DOMAIN timeIndex.ByWeek
              /\ rows[k].TimeLogged = timeIndex.ByWeek[FormatDate(rows[k].WeekStart)]
        /\ \A a, b \in 1..Len(rows) : a < b => rows[a].WeekStart > rows[b].WeekStart

\* C30: in WeeklySummary each week's TaskCount is the number of distinct
\* tasks with at least one log entry starting in that week, each week's
\* TimeLogged is its ByWeek value, and the weeks are ordered by week start,
\* most recent first.
C30_WeekTaskCountIsDistinctTasks ==
    pc = "timeDone" =>
        /\ WeeklyRowsNewestFirst
        /\ \A k \in 1..Len(timeIndex.WeeklySummary) :
              LET row == timeIndex.WeeklySummary[k]
              IN  row.TaskCount = Cardinality(TasksOfWeek(FormatDate(row.WeekStart)))

\* what holds of every build: TaskCount is the number of log entries, of the
\* tasks of positive total, that start in the week
WeekTaskCountIsEntryCount ==
    pc = "timeDone" =>
        /\ WeeklyRowsNewestFirst
        /\ \A k \in 1..Len(timeIndex.WeeklySummary) :
              LET row == timeIndex.WeeklySummary[k]
              IN  row.TaskCount =
                     Len(SelectSeq(WeekKeysOf(tasks),
                                   LAMBDA key : key = FormatDate(row.WeekStart)))

\* a single task with two log entries in one week, counted as two tasks
C30_OneTaskCountedTwice ==
    /\ pc = "timeDone"
    /\ Len(tasks) = 1
    /\ Len(timeIndex.WeeklySummary) = 1
    /\ timeIndex.WeeklySummary[1].TaskCount = 2

(***************************************************************************)
(* the task index and the time tracking index of one task list             *)
(***************************************************************************)

\* the statistics of BuildTaskIndex for the task list of the time tracking
\* index
TaskIndexStatistics == BuildTaskIndex(tasks, Mon10).Statistics

\* C29: for the same task list the task index and the time tracking index
\* agree: Statistics.WithTimeTracking of BuildTaskIndex equals
\* Statistics.TasksWithTracking of BuildTimeTrackingIndex, and the two total
\* logged durations are equal.
C29_IndexesAgreeOnTracking ==
    pc = "timeDone" =>
        /\ TaskIndexStatistics.WithTimeTracking = timeIndex.Statistics.TasksWithTracking
        /\ TaskIndexStatistics.TotalTimeLogged = timeIndex.TotalTimeLogged

\* what holds of every task list: the task index counts the tasks with a log
\* entry and adds every total, the time tracking index counts and adds the
\* tasks of positive total only
IndexesCountDifferentTasks ==
    pc = "timeDone" =>
        LET logged   == SelectSeq(tasks, LAMBDA t : Len(t.Logbook) > 0)
            positive == SelectSeq(tasks, LAMBDA t : TotalOf(t) > 0)
        IN  /\ TaskIndexStatistics.WithTimeTracking = Len(logged)
            /\ TaskIndexStatistics.TotalTimeLogged = SumOfTotals(logged)
            /\ timeIndex.Statistics.TasksWithTracking = Len(positive)
            /\ timeIndex.TotalTimeLogged = SumOfTotals(positive)

\* a task whose only log entry has the duration zero: tracked for the task
\* index, untracked for the time tracking index
C29_ZeroEntryCountedByOneIndex ==
    /\ pc = "timeDone"
    /\ Len(tasks) = 1
    /\ Len(tasks[1].Logbook) = 1
    /\ tasks[1].Logbook[1].Duration = 0
    /\ TaskIndexStatistics.WithTimeTracking = 1
    /\ timeIndex.Statistics.TasksWithTracking = 0

(***************************************************************************)
(* SpecNames: the page name of a note for ParseReferences and for          *)
(* BuildReferenceGraph, on the paths the scanner may give                  *)
(***************************************************************************)

MaxNameLen == 3

\* the characters of the file names: a letter, the backslash, and the
\* characters of the extension
NameChars == {"A", "\\", ".", "m", "d"}

\* the file names the scanner keeps: they end in .md and do not start with a
\* dot (scanner.go:80-87)
NoteNames ==
    {name \o <<".", "m", "d">> :
        name \in {n \in SeqsUpTo(NameChars, MaxNameLen) : n # <<>> /\ n[1] # "."}}

\* the paths relative to the repository: in pages, or in a folder of pages
NotePaths ==
    {<<"p", "/">> \o name : name \in NoteNames}
    \cup {<<"p", "/", "s", "/">> \o name : name \in NoteNames}

\* the content of every note: one line with a link to B
LinkToB == <<<<"s", "e", "e", " ", "[", "[", "B", "]", "]">>>>

\* the loop of runGenerate over the files: the LinkRecords of every note
RECURSIVE AllReferences(_)
AllReferences(fs) ==
    IF fs = <<>> THEN <<>>
    ELSE ParseReferences(LinkToB, Head(fs).Path) \o AllReferences(Tail(fs))

NamesInit ==
    /\ pc = "names"
    /\ \E path \in NotePaths :
          files \in {<<[Path |-> path, Type |-> "page"]>>,
                     <<[Path |-> path, Type |-> "page"], PageFile("p", NameB)>>}
    /\ refs = <<>> /\ Nodes = <<>> /\ HubPages = <<>>
    /\ MissingPages = <<>> /\ Threshold = 0
    /\ graphOthersIdle

\* runGenerate: ParseReferences on every file
NamesParseReferences ==
    /\ pc = "names"
    /\ refs' = AllReferences(files)
    /\ pc' = "namesParsed"
    /\ UNCHANGED <<files, Nodes, HubPages, MissingPages, Threshold, graphOthers>>

\* runGenerate: BuildReferenceGraph(allRefs, files)
NamesBuildGraph ==
    /\ pc = "namesParsed"
    /\ \E nodes \in {AddRefs(SeedNodes(files, <<>>), refs)} :
          /\ Nodes' = nodes
          /\ HubPages' \in {findHubPages(nodes, order, topN) :
                               order \in AllOrders(DOMAIN nodes)}
    /\ pc' = "namesBuilt"
    /\ UNCHANGED <<files, refs, MissingPages, Threshold, graphOthers>>

NamesNext == NamesParseReferences \/ NamesBuildGraph

SpecNames == NamesInit /\ [][NamesNext]_vars

\* C28: for every note path the source page name of the link extractor equals
\* the node key of the graph builder, so every LinkRecord of a note of the
\* file list has a source node and its outbound edge is stored.
C28_SourceNameIsNodeKey ==
    pc = "namesBuilt" =>
        /\ \A k \in 1..Len(files) :
              parserExtractPageNameFromPath(files[k].Path)
                 = extractPageNameFromPath(files[k].Path)
        /\ \A k \in 1..Len(refs) :
              /\ refs[k].SourcePage \in DOMAIN Nodes
              /\ contains(Nodes[refs[k].SourcePage].OutboundRefs, refs[k].TargetPage)

\* what holds of every path: the two names are equal when the file name has
\* no backslash, and then the outbound edge is stored
NamesAgreeWithoutBackslash ==
    pc = "namesBuilt" =>
        \A k \in 1..Len(refs) :
            ~Contains(filepathBase(refs[k].SourceFile), <<"\\">>) =>
                /\ refs[k].SourcePage = extractPageNameFromPath(refs[k].SourceFile)
                /\ refs[k].SourcePage \in DOMAIN Nodes
                /\ contains(Nodes[refs[k].SourcePage].OutboundRefs, refs[k].TargetPage)

\* a note whose file name holds a backslash: its LinkRecord names a source
\* page that is no node, and its node has no outbound edge
C28_BackslashNameEdgeDropped ==
    /\ pc = "namesBuilt"
    /\ Len(files) = 1
    /\ Len(refs) = 1
    /\ refs[1].SourcePage \notin DOMAIN Nodes
    /\ Nodes[extractPageNameFromPath(files[1].Path)].OutboundRefs = <<>>

(***************************************************************************)
(* SpecDigest: BuildTimelineIndex on the tasks of one journal day, for the *)
(* key activity of the day                                                 *)
(***************************************************************************)

MaxDayTasks == 5

\* a description of n characters
TextOf(n) == [k \in 1..n |-> IF k % 2 = 1 THEN "a" ELSE "b"]

DayTask(status, priority, length) ==
    [Status |-> status, Priority |-> priority, Description |-> TextOf(length),
     PageRefs |-> <<>>, SourceFile |-> JournalOf(Nov6).Path, LineNumber |-> 1,
     Logbook |-> <<>>]

\* the tasks of the journal of November 6: every status, three tasks of
\* priority A, descriptions of 61, 60 and 1 characters
DigestTasks ==
    { DayTask("NOW", "A", 61), DayTask("DOING", "A", 60), DayTask("TODO", "A", 1),
      DayTask("LATER", "", 1), DayTask("DONE", "B", 61) }

\* two journals; no task comes from the second one
DigestInit ==
    /\ pc = "timeline"
    /\ files = <<JournalOf(Nov6), JournalOf(Nov7)>>
    /\ tasks = <<>>
    /\ dayMap = <<>>
    /\ Entries = <<>>
    /\ timelineOthersIdle

\* one turn of the loop over the tasks
DigestAddTask ==
    /\ pc = "days"
    /\ Len(tasks) < MaxDayTasks
    /\ \E task \in DigestTasks :
          /\ tasks' = Append(tasks, task)
          /\ dayMap' = AddTaskToDay(dayMap, task)
    /\ UNCHANGED <<pc, files, Entries, timelineOthers>>

DigestNext == TimelineSeedDays \/ DigestAddTask \/ TimelineSortEntries

SpecDigest == DigestInit /\ [][DigestNext]_vars

\* the statuses in the order of the count lines
DigestOrder == <<"NOW", "DOING", "TODO", "LATER", "DONE">>

\* the count line of n tasks of a status
CountLine(n, status) ==
    Itoa(n, 1) \o <<" ">> \o StatusText[status]
        \o (IF n = 1 THEN <<" ", "t", "a", "s", "k">>
            ELSE <<" ", "t", "a", "s", "k", "s">>)

\* text is the description, or its cut when the description is longer than 60
\* characters: at most 60 characters, the last three an ellipsis, the others
\* the start of the description
ShownDescription(text, desc) ==
    IF Len(desc) <= 60 THEN text = desc
    ELSE /\ Len(text) <= 60
         /\ Len(text) >= 3
         /\ SubSeq(text, Len(text) - 2, Len(text)) = <<".", ".", ".">>
         /\ SubSeq(text, 1, Len(text) - 3) = SubSeq(desc, 1, Len(text) - 3)

\* the digest of a day is as C24 says
DigestOfDay(day) ==
    LET created == day.TasksCreated
        digest  == day.KeyActivity
        count(st) == Cardinality({k \in 1..Len(created) : created[k].Status = st})
        present == SelectSeq(DigestOrder, LAMBDA st : count(st) > 0)
        high    == SelectSeq(created, LAMBDA t : t.Priority = "A")
        shown   == IF Len(high) < 2 THEN Len(high) ELSE 2
    IN  /\ Len(digest) = Len(present) + shown
        /\ \A k \in 1..Len(present) : digest[k] = CountLine(count(present[k]), present[k])
        /\ \A k \in 1..shown :
              LET line == digest[Len(present) + k]
              IN  /\ SubSeq(line, 1, 2) = <<"fire", " ">>
                  /\ ShownDescription(SubSeq(line, 3, Len(line)), high[k].Description)
        /\ created = <<>> => digest = <<>>
        /\ Len(digest) <= 7

\* C24: the activity digest of a TimelineDay has one count line per status
\* present among its tasks, in the order NOW, DOING, TODO, LATER, DONE ("1
\* <STATUS> task" for one, "<n> <STATUS> tasks" otherwise), then at most 2
\* highlight lines, for the first two tasks of priority A in task order, each
\* description cut to at most 60 characters ending in an ellipsis when longer;
\* a day without tasks has an empty digest, and no digest exceeds 7 lines.
C24_DigestCountsThenTwoHighlights ==
    pc = "timelineDone" => \A key \in DOMAIN dayMap : DigestOfDay(dayMap[key])

\* a day with every status and three tasks of priority A, the first of them
\* with a description of 61 characters: a digest of 7 lines; beside it a day
\* without tasks
C24_Witness ==
    /\ pc = "timelineDone"
    /\ \E key \in DOMAIN dayMap :
          LET day  == dayMap[key]
              high == SelectSeq(day.TasksCreated, LAMBDA t : t.Priority = "A")
          IN  /\ Len(day.KeyActivity) = 7
              /\ Len(high) = 3
              /\ Len(high[1].Description) = 61
              /\ Len(day.KeyActivity[6]) = 62
    /\ \E key \in DOMAIN dayMap :
          dayMap[key].TasksCreated = <<>> /\ dayMap[key].KeyActivity = <<>>
====
